---------------------------- MODULE Spec2Model ----------------------------
(***************************************************************************)
(* HarmonicScheduler: the task registry (Model/TaskRegistry.h), the        *)
(* per-task tracker (Model/TaskTracker.h), the three dispatcher variants   *)
(* (Scheduler/NoProfiling.h, BaseProfiling.h, FullProfiling.h), the        *)
(* non-OS idle sleep (Scheduler/Abstract.h) and the interrupt adapters     *)
(* (Task/InterruptFlagTask.h, InterruptSignalTask.h, InterruptEventTask.h).*)
(*                                                                         *)
(* One dispatcher thread runs Loop(); interrupt service routines run to    *)
(* completion between any two steps of the dispatcher that are not inside  *)
(* an AtomicGuard.  Every step of the dispatcher that the source leaves    *)
(* unguarded is its own action, so that an ISR can fall between them.      *)
(***************************************************************************)
EXTENDS Integers, FiniteSets, Sequences, TLC

(***************************************************************************)
(* Bounds of the model.                                                    *)
(***************************************************************************)
\* Number of task objects that exist (task pointers 1..NumTasks, 0 = nullptr).
NumTasks == 3
\* Largest MaxTaskCount template argument a scheduler is built with.
MaxTaskCount == 2
\* The millisecond clock and LastRun wrap at TimeMod (2^32 in the source).
TimeMod == 8
\* Largest period handed to Attach / SetPeriod / SetPeriodAndEnabled.
MaxPeriod == 2
\* History counters of elapsed milliseconds stop counting here.
MaxGap == 6
\* Width of the adapters' counter type: MaxValue = CounterMod - 1.
CounterMod == 4
\* History counters of interrupts stop counting here.
MaxIrq == 5

\* All-ones of task_id_t (uint_fast8_t).
TASK_INVALID_ID == 255

TaskIds == 1..NumTasks
Slots == 0..(MaxTaskCount - 1)
Times == 0..(TimeMod - 1)
Periods == 0..MaxPeriod

\* Unsigned wrapping subtraction and addition of the millisecond clock.
Sub32(a, b) == (a - b + TimeMod) % TimeMod
Add32(a, b) == (a + b) % TimeMod

Min(a, b) == IF a < b THEN a ELSE b

\* The largest timestamp.
UINT32_MAX == TimeMod - 1

\* wakeId when no cooperative WakeFromISR call is between its two stores.
NoWake == -1


(***************************************************************************)
(* State.                                                                  *)
(***************************************************************************)
VARIABLES
    \* TaskRegistry / AbstractScheduler
    TaskList,          \* Tasks[MaxTaskCount]: slot -> TaskTracker
    TaskCount,         \* number of registered tasks
    Hot,               \* registry changed / a task ran
    TaskCapacity,      \* const TaskCapacity given to the constructor
    Id,                \* DynamicTask::Id of every task object
    \* platform
    now,               \* millis(), modulo TimeMod
    \* scheduler configuration (template arguments)
    variant,           \* "NoProfiling" | "BaseProfiling" | "FullProfiling"
    IdleSleepEnabled,
    \* dispatcher thread
    pc,                \* position of the dispatcher thread
    li,                \* loop variable i of Loop()
    period,            \* RunIfTime local
    timestamp,         \* RunIfTime / IdleSleep local
    elapsed,           \* RunIfTime local
    shortestTime,      \* GetTimeUntilNextRun local
    wakeId,            \* taskId of a WakeFromISR call between its two stores
    TraceTaskCount,    \* SchedulerFullProfiling::Trace.TaskCount
    TraceIterations,   \* Trace.Iterations of the two profiling schedulers
    trace,             \* the caller's output of GetTrace
    \* aggregate profiler (SchedulerBaseProfiling)
    micros,            \* Platform::GetProfilerTimestamp(), modulo MicroMod
    loopStart,         \* Loop local
    measure,           \* Loop local
    TraceBusy,         \* Trace.Busy
    TraceScheduling,   \* Trace.Scheduling
    \* platform with an OS (HARMONIC_PLATFORM_OS)
    PlatformOS,        \* the build defines HARMONIC_PLATFORM_OS
    tickPeriod,        \* 1000 / configTICK_RATE_HZ
    signaled,          \* IdleSleepSemaphore: given and not yet taken
    sleepDuration,     \* IdleSleep local; the timeout left while blocked
    \* interrupt adapter (task 1 when kind # "none")
    kind,              \* "none" | "flag" | "signal" | "event" | "ts"
    InterruptFlag,     \* InterruptFlag::CallbackTask::InterruptFlag
    InterruptCount,    \* InterruptSignal / InterruptCount of signal, event
    InterruptTimestamp,
    apc,               \* position inside the adapter's Run
    flag,              \* Run local: snapshot of the flag / counter
    interruptPending,  \* Run local
    runTimestamp,      \* Run local timestamp of the event adapter
    \* compatibility shim TS::Task (task 1 when kind = "ts")
    Iterations,        \* TS::Task::Iterations
    TargetIterations,  \* TS::Task::TargetIterations
    \* history (not program state)
    h

regVars == <<TaskList, TaskCount, Hot, Id>>
cfgVars == <<TaskCapacity, variant, IdleSleepEnabled, kind, PlatformOS,
            tickPeriod>>
osVars == <<signaled, sleepDuration>>
locVars == <<period, timestamp, elapsed, shortestTime>>
profVars == <<micros, loopStart, measure, TraceBusy, TraceScheduling>>
traceVars == <<TraceTaskCount, TraceIterations, profVars>>
tsVars == <<Iterations, TargetIterations>>
adapterVars == <<InterruptFlag, InterruptCount, InterruptTimestamp, apc, flag,
                 interruptPending, runTimestamp, tsVars>>
vars == <<TaskList, TaskCount, Hot, TaskCapacity, Id, now, variant,
          IdleSleepEnabled, pc, li, period, timestamp, elapsed, shortestTime,
          wakeId, TraceTaskCount, TraceIterations, trace, PlatformOS,
          tickPeriod, signaled, sleepDuration, kind, InterruptFlag,
          InterruptCount, InterruptTimestamp, apc, flag, interruptPending,
          runTimestamp, Iterations, TargetIterations, micros, loopStart,
          measure, TraceBusy, TraceScheduling, h>>

\* TaskTracker with its default member initialisers.
EmptyTracker == [Task |-> 0, Period |-> 0, LastRun |-> 0, Enabled |-> FALSE]

Variants == {"NoProfiling", "BaseProfiling", "FullProfiling"}

\* The caller's trace structure before any GetTrace has filled it.
NoTrace == [Iterations |-> 0, TaskCount |-> 0, Busy |-> 0, Scheduling |-> 0]

(***************************************************************************)
(* History record (not program state).                                     *)
(*   track        which histories the specification at hand keeps          *)
(*   attached     tasks attached and not since detached                    *)
(*   fire         what held when Task->Run() was invoked, while it runs    *)
(*   steady       per task: it ran with a period > 0, and no mutator       *)
(*                touched it since                                         *)
(*   sinceRun     per steady task: ms since its Run was last invoked       *)
(*   lastElapsed  per steady task: elapsed of that last firing             *)
(*   first        per task: enabled from disabled with a period > 0 by     *)
(*                SetEnabled / SetPeriodAndEnabled and not run or touched  *)
(*                since                                                    *)
(*   sinceEnable  per such task: ms since that enabling                    *)
(*   seen         the (Enabled, Period) pairs the tracker under            *)
(*                evaluation has held since RunIfTime began                *)
(*   woke         per task: WakeFromISR began on it and it was not         *)
(*                disabled, detached, re-timed or run since                *)
(*   wokeS        the same, but re-timing does not clear it                *)
(*   evalWoke, evalWokeS   woke / wokeS of the evaluated task when         *)
(*                RunIfTime began                                          *)
(*   wakeOk, missed (and wakeOkS, missedS)  no WakeFromISR returned with   *)
(*                a woken task not (period 0, enabled); an evaluation that *)
(*                began on a woken task ended without Run                  *)
(*   irqs         OnInterrupt calls of the adapter since its Run last      *)
(*                snapshot its flag / counter (or since AttachListener)    *)
(*   idleIrqs     OnInterrupt calls since the last pass ended              *)
(*   passIrqs     idleIrqs when the current pass began, until the          *)
(*                adapter's tracker has been evaluated                     *)
(*   expect       what the listener is due at the snapshot: 1 or 0 for     *)
(*                the flag adapter, min(irqs, MaxValue) otherwise          *)
(*   delivered    every Run so far gave the listener what it was due       *)
(*   lost         a pass that began with passIrqs >= 1 evaluated the       *)
(*                adapter's tracker without running it                     *)
(*   lastSet      per task: the enabled value given by the most recent     *)
(*                Attach / SetEnabled / SetPeriodAndEnabled                *)
(*   toggled      per task: such a call changed lastSet since Attach       *)
(*   passes       per task: Loop calls begun since its last firing (0..2)  *)
(*   dur          per task: milliseconds its last Run took                 *)
(*   prevPasses, prevDur, prevElapsed   per task: passes, dur and          *)
(*                lastElapsed at its last firing                           *)
(*   fresh        per task: attached enabled, not run or touched since     *)
(*   sinceAttach  per fresh task: ms since that Attach                     *)
(*   evalAge      sinceAttach of the evaluated task when RunIfTime read    *)
(*                the timestamp                                            *)
(*   lastEval     the latest completed RunIfTime decision: the slot, the   *)
(*                tracker's Enabled, Period and LastRun and the timestamp  *)
(*                it was taken on, and whether Run was invoked             *)
(*   madeDue      per task: "same" when a Run made it due (period 0 and    *)
(*                enabled) from a lower slot in this Loop call, "next"     *)
(*                when from its own or a higher slot, else "none"          *)
(*   evalSlot     the last slot evaluated in this Loop call, -1 if none    *)
(*   orderOk      no slot was evaluated out of ascending order or during   *)
(*                a Run, and no task marked "next" ran in the same call    *)
(*   ranSame, ranNext   a task marked "same" / one marked "next" has run   *)
(*   call         the latest registry call: n flips at every call, op and  *)
(*                arg (task or id), p, en are the call, ret its return     *)
(*                value (TRUE for void), notes the sequence of             *)
(*                <<task, id>> notifications it sent                       *)
(*   loops        Loop calls that returned since the trace window was      *)
(*                last reset (construction, a GetTrace that returned       *)
(*                true, ClearTraceData), counted up to MaxIterations       *)
(*   lastGet      "data" / "nodata": what the latest GetTrace returned,    *)
(*                "none" once a Loop call returned after it                *)
(*   ranInPass    the tasks whose Run was invoked in this Loop call        *)
(*   ranTwice     a Run was invoked on a task already in ranInPass         *)
(*   isr          the setter call that an ISR made on the id of a          *)
(*                cooperative WakeFromISR call between its two stores;     *)
(*                of length 2 when there was more than one such call       *)
(*   wakeEnd      isr and the <<Period, Enabled>> pair of the tracker when *)
(*                the latest cooperative WakeFromISR call returned         *)
(*   wakeInSleep  WakeFromISR was called on a registered id after the      *)
(*                dispatch loop of the Loop call in progress               *)
(*   retimed      SetPeriod, SetEnabled or SetPeriodAndEnabled was called  *)
(*                on a registered id while the dispatcher was blocked in   *)
(*                the take of the Loop call in progress                    *)
(*   firstTs, lastTs   the clock at the first and at the latest OnInterrupt *)
(*                call since the adapter's last snapshot                   *)
(*   expectTs, spread   firstTs, and firstTs # lastTs, at the snapshot     *)
(*   calls        OnInterrupt calls since AttachListener                   *)
(*   given        the sum of the counts given to the listener since then   *)
(*   saturated    an OnInterrupt call found the counter at MaxValue        *)
(*   cb           the latest listener callback: n flips at every callback, *)
(*                count and ts are its arguments (1 and 0 for the flag     *)
(*                adapter), due = expect and dueTs = expectTs when it was  *)
(*                made, inRun whether it was made from the adapter's Run   *)
(*   changed      a registry call that changes scheduling state was made   *)
(*                since the Loop call in progress began                    *)
(*   changeN      flips at every registry call that changes scheduling     *)
(*                state                                                    *)
(*   taskTraces   per slot i: the tasks whose runs TaskTraces[i] of the    *)
(*                full profiler has accumulated since it was last cleared  *)
(*   got          taskTraces of the slots the latest GetTrace that         *)
(*                returned true copied out                                 *)
(*   adv          AdvanceTimestamp: calls counts the calls; of the latest  *)
(*                one, offset is the argument, count is TaskCount and      *)
(*                wrapped whether some LastRun was below offset            *)
(*   ts           TS::Task: Callback invocations, OnDisable invocations,   *)
(*                and calls of enable() and disable() from outside Run     *)
(* The millisecond counters stop at MaxGap.                                *)
(***************************************************************************)
NoFire == [task |-> 0, registered |-> TRUE, steady |-> FALSE, gap |-> 0,
           per |-> 0, lastElapsed |-> 0, first |-> FALSE, sinceEnable |-> 0,
           enPer |-> 0, woke |-> FALSE, enabled |-> TRUE, lastSet |-> TRUE,
           passes |-> 0, dur |-> 0, prevPasses |-> 0, prevDur |-> 0,
           prevElapsed |-> 0, fresh |-> FALSE, sinceAttach |-> 0]

NoEval == [slot |-> -1, enabled |-> FALSE, period |-> 0, lastRun |-> 0,
           timestamp |-> 0, fired |-> FALSE]

NoCall == [n |-> 0, op |-> "none", arg |-> 0, p |-> 0, en |-> FALSE,
           ret |-> FALSE, notes |-> <<>>]

NoCallback == [n |-> 0, count |-> 0, ts |-> 0, due |-> 0, dueTs |-> 0,
               spread |-> FALSE, inRun |-> TRUE]

HInit == [track       |-> {},
          attached    |-> {},
          fire        |-> NoFire,
          steady      |-> [t \in TaskIds |-> FALSE],
          sinceRun    |-> [t \in TaskIds |-> 0],
          lastElapsed |-> [t \in TaskIds |-> 0],
          first       |-> [t \in TaskIds |-> FALSE],
          sinceEnable |-> [t \in TaskIds |-> 0],
          seen        |-> {},
          woke        |-> [t \in TaskIds |-> FALSE],
          wokeS       |-> [t \in TaskIds |-> FALSE],
          evalWoke    |-> FALSE,
          evalWokeS   |-> FALSE,
          wakeOk      |-> TRUE,
          wakeOkS     |-> TRUE,
          missed      |-> FALSE,
          missedS     |-> FALSE,
          irqs        |-> 0,
          idleIrqs    |-> 0,
          passIrqs    |-> 0,
          expect      |-> 0,
          delivered   |-> TRUE,
          lost        |-> FALSE,
          lastSet     |-> [t \in TaskIds |-> FALSE],
          toggled     |-> [t \in TaskIds |-> FALSE],
          passes      |-> [t \in TaskIds |-> 0],
          dur         |-> [t \in TaskIds |-> 0],
          prevPasses  |-> [t \in TaskIds |-> 0],
          prevDur     |-> [t \in TaskIds |-> 0],
          prevElapsed |-> [t \in TaskIds |-> 0],
          fresh       |-> [t \in TaskIds |-> FALSE],
          sinceAttach |-> [t \in TaskIds |-> 0],
          evalAge     |-> 0,
          lastEval    |-> NoEval,
          madeDue     |-> [t \in TaskIds |-> "none"],
          evalSlot    |-> -1,
          orderOk     |-> TRUE,
          ranSame     |-> FALSE,
          ranNext     |-> FALSE,
          call        |-> NoCall,
          loops       |-> 0,
          lastGet     |-> "none",
          ranInPass   |-> {},
          ranTwice    |-> FALSE,
          wakeInSleep |-> FALSE,
          retimed     |-> FALSE,
          isr         |-> <<>>,
          wakeEnd     |-> [isr |-> <<>>, final |-> <<0, TRUE>>],
          firstTs     |-> 0,
          lastTs      |-> 0,
          expectTs    |-> 0,
          spread      |-> FALSE,
          calls       |-> 0,
          given       |-> 0,
          saturated   |-> FALSE,
          cb          |-> NoCallback,
          changed     |-> FALSE,
          changeN     |-> 0,
          taskTraces  |-> [i \in Slots |-> {}],
          got         |-> [i \in Slots |-> {}],
          adv         |-> [calls |-> 0, offset |-> 0, count |-> 0,
                           wrapped |-> FALSE],
          ts          |-> [callbacks |-> 0, onDisable |-> 0, calls |-> 0]]

Cap(n) == IF n < MaxGap THEN n + 1 ELSE MaxGap

\* One millisecond passes.
HTick(hh) ==
    [hh EXCEPT !.sinceRun = [t \in TaskIds |->
                                IF hh.steady[t] THEN Cap(@[t]) ELSE @[t]],
               !.sinceEnable = [t \in TaskIds |->
                                   IF hh.first[t] THEN Cap(@[t]) ELSE @[t]],
               !.dur = [t \in TaskIds |->
                           IF "overrun" \in hh.track /\ pc = "run"
                                                  /\ hh.fire.task = t
                           THEN Cap(@[t]) ELSE @[t]],
               !.sinceAttach = [t \in TaskIds |->
                                   IF hh.fresh[t] THEN Cap(@[t]) ELSE @[t]]]

\* The task whose tracker RunIfTime is evaluating, 0 if none.
EvalTask ==
    IF pc \in {"period", "stamp", "decide"} THEN TaskList[li].Task ELSE 0

\* A mutator touched the tasks in S.  enabling: SetEnabled or
\* SetPeriodAndEnabled just took them from disabled to enabled with a
\* period > 0.  off: it disabled or detached them.  retime: it wrote Period.
HTouch(hh, S, enabling, off, retime) ==
    [hh EXCEPT
        !.steady = [t \in TaskIds |-> IF t \in S THEN FALSE ELSE @[t]],
        !.sinceRun = [t \in TaskIds |-> IF t \in S THEN 0 ELSE @[t]],
        !.lastElapsed = [t \in TaskIds |-> IF t \in S THEN 0 ELSE @[t]],
        !.first = [t \in TaskIds |->
                      IF t \in S THEN enabling /\ "enable" \in hh.track
                      ELSE @[t]],
        !.sinceEnable = [t \in TaskIds |-> IF t \in S THEN 0 ELSE @[t]],
        !.fresh = [t \in TaskIds |-> IF t \in S THEN FALSE ELSE @[t]],
        !.sinceAttach = [t \in TaskIds |-> IF t \in S THEN 0 ELSE @[t]],
        !.woke = [t \in TaskIds |->
                     IF t \in S /\ (off \/ retime) THEN FALSE ELSE @[t]],
        !.wokeS = [t \in TaskIds |-> IF t \in S /\ off THEN FALSE ELSE @[t]],
        !.evalWoke = @ /\ ~(EvalTask \in S /\ (off \/ retime)),
        !.evalWokeS = @ /\ ~(EvalTask \in S /\ off)]

\* The tracker in slot i, under evaluation, now holds the pair <<en, p>>.
HPair(hh, i, en, p) ==
    IF "pair" \in hh.track /\ pc \in {"period", "stamp", "decide"} /\ li = i
    THEN [hh EXCEPT !.seen = @ \cup {<<en, p>>}]
    ELSE hh

\* RunIfTime begins on tracker tr, the tracker of task t iff own.
HEval(hh, tr, own) ==
    [hh EXCEPT !.seen = IF "pair" \in hh.track
                        THEN {<<tr.Enabled, tr.Period>>} ELSE {},
               !.evalWoke = own /\ hh.woke[tr.Task],
               !.evalWokeS = own /\ hh.wokeS[tr.Task]]

\* RunIfTime on the tracker of task t returns false.
HNoRun(hh, t) ==
    [hh EXCEPT !.seen = {},
               !.evalAge = 0,
               !.evalWoke = FALSE,
               !.evalWokeS = FALSE,
               !.missed = @ \/ (hh.evalWoke /\ hh.woke[t]),
               !.missedS = @ \/ (hh.evalWokeS /\ hh.wokeS[t]),
               !.lost = @ \/ (kind # "none" /\ t = 1 /\ hh.passIrqs >= 1),
               !.passIrqs = IF kind # "none" /\ t = 1 THEN 0 ELSE @]

\* The bound of the dispatch loop: FullProfiling iterates to the snapshot
\* Trace.TaskCount, the other two to TaskCount.
LoopBoundFirst == Min(1, TaskCount)

LoopBound == IF variant = "FullProfiling" THEN TraceTaskCount ELSE TaskCount

\* The dispatch loop of the Loop call in progress has ended and the call
\* has not returned.
AfterPass ==
    \/ pc = "loop" /\ li >= LoopBound
    \/ pc \in {"scan", "until", "hot", "take", "blocked"}

\* A call of op on a registered id while the dispatcher is past its
\* dispatch loop / blocked in the take.
HOs(hh, op, arg) ==
    IF "os" \notin hh.track \/ arg = TASK_INVALID_ID \/ arg >= TaskCount
    THEN hh
    ELSE [hh EXCEPT
            !.wakeInSleep = @ \/ (op = "WakeFromISR" /\ AfterPass),
            !.retimed = @ \/ (op \in {"SetPeriod", "SetEnabled",
                                      "SetPeriodAndEnabled"}
                                 /\ pc = "blocked")]

\* A registry call returns.
HCallOs(hh, op, arg, p, en, ret, notes) ==
    IF "atomic" \in hh.track
    THEN IF /\ wakeId # NoWake /\ arg = wakeId
            /\ op \in {"SetPeriod", "SetEnabled", "SetPeriodAndEnabled"}
         THEN [hh EXCEPT !.isr = IF @ = <<>>
                                 THEN <<[op |-> op, p |-> p, en |-> en]>>
                                 ELSE <<NoCall, NoCall>>]
         ELSE hh
    ELSE IF "call" \notin hh.track THEN hh
    ELSE [hh EXCEPT !.call = [n |-> 1 - hh.call.n, op |-> op, arg |-> arg,
                              p |-> p, en |-> en, ret |-> ret,
                              notes |-> notes]]

\* The call op(arg) that returned ret changes scheduling state: a
\* successful Attach or Detach, Clear, a setter or WakeFromISR on a valid id.
Changes(op, arg, ret) ==
    \/ op \in {"Attach", "Detach", "DetachTask", "TaskDetach"} /\ ret
    \/ op = "Clear"
    \/ /\ op \in {"SetPeriod", "SetEnabled", "SetPeriodAndEnabled",
                  "WakeFromISR"}
       /\ arg # TASK_INVALID_ID /\ arg < TaskCount

\* Such a call returns, and it was made in the Loop call in progress
\* ("hot").
HHot(hh, op, arg, ret) ==
    IF "hot" \notin hh.track \/ ~Changes(op, arg, ret) THEN hh
    ELSE [hh EXCEPT !.changeN = 1 - @,
                    !.changed = @ \/ pc # "idle"]

HCall(hh, op, arg, p, en, ret, notes) ==
    HHot(HCallOs(HOs(hh, op, arg), op, arg, p, en, ret, notes), op, arg, ret)

\* The Run in progress (slot li) made the tasks in S due: period 0 and
\* enabled.
HDue(hh, S) ==
    IF "order" \notin hh.track \/ pc # "run" THEN hh
    ELSE [hh EXCEPT !.madeDue = [t \in TaskIds |->
                                   IF t \notin S THEN @[t]
                                   ELSE IF Id[t] > li THEN "same"
                                   ELSE IF @[t] = "same" THEN @[t]
                                   ELSE "next"]]

\* The dispatcher begins the evaluation of slot i.
HOrder(hh, i) ==
    IF "order" \notin hh.track THEN hh
    ELSE [hh EXCEPT !.orderOk = @ /\ i > hh.evalSlot /\ hh.fire.task = 0,
                    !.evalSlot = i]

\* A Loop call begins: what was due for the next call is due for this one.
HLoop(hh) ==
    [hh EXCEPT !.evalSlot = -1,
               !.ranInPass = {},
               !.changed = FALSE,
               !.madeDue = [t \in TaskIds |->
                               IF @[t] = "next" THEN "passed" ELSE @[t]]]

\* RunIfTime on slot i has decided, on timestamp ts, to invoke Run or not.
HDecided(hh, i, ts, fired) ==
    IF "eval" \notin hh.track THEN hh
    ELSE [hh EXCEPT !.lastEval = [slot |-> i,
                                  enabled |-> TaskList[i].Enabled,
                                  period |-> TaskList[i].Period,
                                  lastRun |-> TaskList[i].LastRun,
                                  timestamp |-> ts,
                                  fired |-> fired]]

\* Attach (fresh) or SetEnabled / SetPeriodAndEnabled gave task t the
\* enabled value en.
HSet(hh, t, en, fresh) ==
    IF "set" \notin hh.track \/ t \notin TaskIds THEN hh
    ELSE [hh EXCEPT !.lastSet[t] = en,
                    !.toggled[t] = ~fresh /\ (@ \/ hh.lastSet[t] # en)]

\* Task->Run() of task t is invoked by RunIfTime with the locals p
\* (period) and el (elapsed); cur and en are the Period and Enabled its
\* tracker holds.
HRun(hh, t, p, el, cur, en) ==
    IF t \notin TaskIds THEN hh
    ELSE [hh EXCEPT !.fire = [task |-> t,
                              registered |-> t \in hh.attached,
                              steady |-> hh.steady[t],
                              gap |-> hh.sinceRun[t],
                              per |-> p,
                              lastElapsed |-> hh.lastElapsed[t],
                              first |-> hh.first[t],
                              sinceEnable |-> hh.sinceEnable[t],
                              enPer |-> cur,
                              woke |-> hh.woke[t],
                              enabled |-> ("set" \in hh.track => en),
                              lastSet |-> ("set" \in hh.track => hh.lastSet[t]),
                              passes |-> hh.passes[t],
                              dur |-> hh.dur[t],
                              prevPasses |-> hh.prevPasses[t],
                              prevDur |-> hh.prevDur[t],
                              prevElapsed |-> hh.prevElapsed[t],
                              fresh |-> hh.fresh[t],
                              sinceAttach |-> hh.evalAge],
                    !.fresh[t] = FALSE,
                    !.ranInPass = IF "once" \in hh.track THEN @ \cup {t}
                                  ELSE @,
                    !.ranTwice = @ \/ ("once" \in hh.track
                                          /\ t \in hh.ranInPass),
                    !.madeDue[t] = "none",
                    !.orderOk = @ /\ hh.madeDue[t] # "next",
                    !.ranSame = @ \/ hh.madeDue[t] = "same",
                    !.ranNext = @ \/ hh.madeDue[t] = "passed",
                    !.sinceAttach[t] = 0,
                    !.evalAge = 0,
                    !.passes[t] = 0,
                    !.dur[t] = 0,
                    !.prevPasses[t] = IF "overrun" \in hh.track
                                      THEN hh.passes[t] ELSE 0,
                    !.prevDur[t] = hh.dur[t],
                    !.prevElapsed[t] = IF "overrun" \in hh.track
                                       THEN hh.lastElapsed[t] ELSE 0,
                    !.steady[t] = (p > 0 /\ "gap" \in hh.track),
                    !.sinceRun[t] = 0,
                    !.lastElapsed[t] = IF p > 0 /\ "gap" \in hh.track
                                       THEN el ELSE 0,
                    !.first[t] = FALSE,
                    !.sinceEnable[t] = 0,
                    !.seen = {},
                    !.evalWoke = FALSE,
                    !.evalWokeS = FALSE,
                    !.woke[t] = FALSE,
                    !.wokeS[t] = FALSE]

(***************************************************************************)
(* TaskTracker (Model/TaskTracker.h): the guarded mutators, as functions   *)
(* of the tracker and of the timestamp read inside the guard.              *)
(***************************************************************************)
BindTaskEnabled(tr, task, p, enabled, ts) ==
    [Task |-> task, Period |-> p, Enabled |-> TRUE, LastRun |-> ts]

BindTask(tr, task, p, enabled, ts) ==
    [Task |-> task, Period |-> p, Enabled |-> enabled,
     LastRun |-> IF enabled THEN ts ELSE tr.LastRun]

TrackerSetPeriod(tr, p) == [tr EXCEPT !.Period = p]

TrackerSetEnabledKeepsOn(tr, enabled, ts) ==
    [tr EXCEPT !.LastRun = IF enabled /\ ~tr.Enabled THEN ts ELSE @,
               !.Enabled = @ \/ enabled]

TrackerSetEnabled(tr, enabled, ts) ==
    [tr EXCEPT !.LastRun = IF enabled /\ ~tr.Enabled THEN ts ELSE @,
               !.Enabled = enabled]

TrackerSetPeriodAndEnabled(tr, p, enabled, ts) ==
    [tr EXCEPT !.LastRun = IF enabled /\ ~tr.Enabled THEN ts ELSE @,
               !.Period = p,
               !.Enabled = enabled]

\* LastRun after a firing: resynchronise or advance by one period.
LastRunAfterRun(lastRun, p, el, ts) ==
    IF p > 1 /\ (el \div 2) > p THEN ts ELSE Add32(lastRun, p)

\* The firing decision of RunIfTime.
IsTimeInclusive(p, el) == p = 0 \/ el >= p

IsTime(p, el) == p = 0 \/ el > p

(***************************************************************************)
(* TaskRegistry (Model/TaskRegistry.h).                                    *)
(***************************************************************************)
ValidateTaskIdInArray(taskId) == taskId \in Slots

ValidateTaskId(taskId) == taskId # TASK_INVALID_ID /\ taskId < TaskCount

TaskExists(task) == \E i \in Slots : i < TaskCount /\ TaskList[i].Task = task

GetTaskIdAnySlot(task) ==
    IF \E i \in Slots : TaskList[i].Task = task
    THEN CHOOSE i \in Slots : /\ TaskList[i].Task = task
                              /\ \A j \in Slots :
                                    (j < i) => TaskList[j].Task # task
    ELSE TASK_INVALID_ID

\* GetTaskId: the first slot below TaskCount that holds the task, or the
\* sentinel.
GetTaskId(task) ==
    IF TaskExists(task)
    THEN CHOOSE i \in Slots : /\ i < TaskCount /\ TaskList[i].Task = task
                              /\ \A j \in Slots :
                                    (j < i) => TaskList[j].Task # task
    ELSE TASK_INVALID_ID

\* TaskRegistry::IsEnabled and GetPeriod.
IsEnabled(taskId) ==
    IF taskId >= TaskCount THEN FALSE ELSE TaskList[taskId].Enabled

GetPeriod(taskId) ==
    IF taskId >= TaskCount THEN UINT32_MAX ELSE TaskList[taskId].Period

\* The task a tracker notifies, 0 when the id names no slot.
TaskAt(taskId) == IF taskId \in Slots THEN TaskList[taskId].Task ELSE 0

\* Detach(taskId), the tracker array: the removed tracker is disabled, then
\* every tracker behind it is copied one slot down.  The last slot keeps
\* its old content.
DetachListNoShift(tl, n, taskId) ==
    [tl EXCEPT ![taskId].Enabled = FALSE]

DetachList(tl, n, taskId) ==
    [i \in Slots |->
        IF i >= taskId /\ i < n - 1 THEN tl[i + 1]
        ELSE IF i = taskId THEN [tl[i] EXCEPT !.Enabled = FALSE]
        ELSE tl[i]]

\* Detach(taskId), the notifications: the removed task gets the sentinel,
\* each moved task its new index, in loop order.
RECURSIVE NotifyShift(_, _, _, _)
NotifyShift(ids, tl, i, n) ==
    IF i >= n - 1 THEN ids
    ELSE NotifyShift(IF tl[i + 1].Task \in TaskIds
                     THEN [ids EXCEPT ![tl[i + 1].Task] = i] ELSE ids,
                     tl, i + 1, n)

\* The same notifications as the sequence of <<task, id>> calls of
\* OnTaskIdUpdated.
RECURSIVE ShiftNotes(_, _, _)
ShiftNotes(tl, i, n) ==
    IF i >= n - 1 THEN <<>>
    ELSE <<<<tl[i + 1].Task, i>>>> \o ShiftNotes(tl, i + 1, n)

DetachNotes(tl, n, taskId) ==
    <<<<tl[taskId].Task, TASK_INVALID_ID>>>> \o ShiftNotes(tl, taskId, n)

DetachIdsSentinelOnly(ids, tl, n, taskId) ==
    IF tl[taskId].Task \in TaskIds
    THEN [ids EXCEPT ![tl[taskId].Task] = TASK_INVALID_ID]
    ELSE ids

DetachIds(ids, tl, n, taskId) ==
    NotifyShift(IF tl[taskId].Task \in TaskIds
                THEN [ids EXCEPT ![tl[taskId].Task] = TASK_INVALID_ID]
                ELSE ids,
                tl, taskId, n)


(***************************************************************************)
(* Execution contexts.  Cooperative code is the code between two Loop()    *)
(* calls and the body of a task's Run; an ISR runs between any two steps.  *)
(* An interrupt ends the platform idle sleep.                              *)
(***************************************************************************)
Coop == pc \in {"idle", "run"} /\ wakeId = NoWake /\ apc = "none"

IsrPc == IF pc = "asleep" THEN "awake" ELSE pc

\* millis() advances by one (timer interrupt).
Tick ==
    /\ now' = Add32(now, 1)
    /\ pc' = IsrPc
    /\ sleepDuration' = IF pc = "blocked" /\ sleepDuration > 0
                        THEN sleepDuration - 1 ELSE sleepDuration
    /\ h' = HTick(h)
    /\ UNCHANGED <<regVars, cfgVars, signaled, trace, li, locVars, wakeId,
                   traceVars, adapterVars>>

\* The first MaxNow milliseconds after construction.
MaxNow == 3

TickEarly == now < MaxNow /\ Tick

\* The full profiler adds the run of the task in progress to TaskTraces[i]
\* ("traces").
HAccumulate(hh, i) ==
    IF "traces" \notin hh.track \/ variant # "FullProfiling"
          \/ hh.fire.task = 0 THEN hh
    ELSE [hh EXCEPT !.taskTraces[i] = @ \cup {hh.fire.task}]

\* Loop of the full profiler calls ClearTraceData, which zeroes every
\* TaskTraces[i], when the window is not empty and TaskCount is not
\* Trace.TaskCount.
HLoopTraces(hh) ==
    IF variant = "FullProfiling" /\ TraceIterations # 0
          /\ TraceTaskCount # TaskCount
    THEN [hh EXCEPT !.taskTraces = [i \in Slots |-> {}]]
    ELSE hh

\* GetTrace of the full profiler copies TaskTraces[0 .. Trace.TaskCount - 1]
\* to the caller, whose buffer holds TaskCapacity entries, and clears.
HGetTraces(hh) ==
    IF "traces" \notin hh.track \/ variant # "FullProfiling" THEN hh
    ELSE [hh EXCEPT !.got = [i \in Slots |->
                               IF i < Min(TraceTaskCount, TaskCapacity)
                               THEN hh.taskTraces[i] ELSE {}],
                    !.taskTraces = [i \in Slots |-> {}]]

\* Hot = true: a registry operation flags the change.
FlagHotKept(hot) == hot

FlagHot(hot) == TRUE

\* TaskRegistry::WakeFromInterrupt: with an OS the semaphore is given;
\* without one it is a no-op.
WakeFromInterruptNoOp(sem) == sem

WakeFromInterrupt(sem) == IF PlatformOS THEN TRUE ELSE sem

(***************************************************************************)
(* TaskRegistry::Attach, Detach(taskId), Detach(task), Clear and           *)
(* DynamicTask::Detach, called from cooperative context.                   *)
(***************************************************************************)
Attach(task, p, enabled) ==
    /\ Coop
    /\ IF task = 0 \/ TaskCount >= TaskCapacity \/ TaskExists(task)
       THEN /\ UNCHANGED <<regVars, signaled>>
            /\ h' = HCall(h, "Attach", task, p, enabled, FALSE, <<>>)
       ELSE /\ signaled' = WakeFromInterrupt(signaled)
            /\ TaskList' = [TaskList EXCEPT
                               ![TaskCount] = BindTask(@, task, p, enabled, now)]
            /\ Id' = [Id EXCEPT ![task] = TaskCount]
            /\ Hot' = FlagHot(Hot)
            /\ TaskCount' = TaskCount + 1
            /\ h' = [HCall(HSet(HTouch(h, {task}, FALSE, FALSE, TRUE),
                                 task, enabled, TRUE),
                            "Attach", task, p, enabled, TRUE,
                            <<<<task, TaskCount>>>>)
                        EXCEPT !.attached = @ \cup {task},
                               !.fresh[task] = enabled /\ "eval" \in h.track]
    /\ UNCHANGED <<cfgVars, sleepDuration, trace, now, pc, li, locVars,
                   wakeId, traceVars, adapterVars>>

\* The body of Detach(taskId) once the id is known to be below TaskCount;
\* gone is the set of tasks the caller learns to be detached.
\* op, arg and ret are the call that reached it and its return value.
DetachBody(taskId, gone, op, arg, ret) ==
    /\ TaskList' = DetachList(TaskList, TaskCount, taskId)
    /\ Id' = DetachIds(Id, TaskList, TaskCount, taskId)
    /\ TaskCount' = TaskCount - 1
    /\ Hot' = FlagHot(Hot)
    /\ h' = [HCall(HTouch(h, {TaskList[taskId].Task}, FALSE, TRUE, FALSE),
                   op, arg, 0, FALSE, ret,
                   DetachNotes(TaskList, TaskCount, taskId))
                EXCEPT !.attached = @ \ gone]

Detach(taskId) ==
    /\ Coop
    /\ IF taskId >= TaskCount
       THEN /\ UNCHANGED regVars
            /\ h' = HCall(h, "Detach", taskId, 0, FALSE, FALSE, <<>>)
       ELSE DetachBody(taskId, {t \in TaskIds : Id[t] = taskId},
                       "Detach", taskId, TRUE)
    /\ UNCHANGED <<cfgVars, osVars, trace, now, pc, li, locVars, wakeId,
                   traceVars, adapterVars>>

DetachTask(task) ==
    /\ Coop
    /\ IF GetTaskId(task) = TASK_INVALID_ID
       THEN /\ UNCHANGED regVars
            /\ h' = HCall(h, "DetachTask", task, 0, FALSE, FALSE, <<>>)
       ELSE DetachBody(GetTaskId(task), {task}, "DetachTask", task, TRUE)
    /\ UNCHANGED <<cfgVars, osVars, trace, now, pc, li, locVars, wakeId,
                   traceVars, adapterVars>>

\* DynamicTask::Detach: true only if the registry removed a task and this
\* task was told the sentinel.
TaskDetach(t) ==
    /\ Coop
    /\ IF Id[t] = TASK_INVALID_ID \/ Id[t] >= TaskCount
       THEN /\ UNCHANGED regVars
            /\ h' = HCall(h, "TaskDetach", t, 0, FALSE, FALSE, <<>>)
       ELSE DetachBody(Id[t],
                IF DetachIds(Id, TaskList, TaskCount, Id[t])[t] = TASK_INVALID_ID
                THEN {t} ELSE {},
                "TaskDetach", t,
                DetachIds(Id, TaskList, TaskCount, Id[t])[t] = TASK_INVALID_ID)
    /\ UNCHANGED <<cfgVars, osVars, trace, now, pc, li, locVars, wakeId,
                   traceVars, adapterVars>>

ClearList(tl, n) ==
    [i \in Slots |-> IF i < n THEN [tl[i] EXCEPT !.Enabled = FALSE] ELSE tl[i]]

Clear ==
    /\ Coop
    /\ TaskList' = ClearList(TaskList, TaskCount)
    /\ Id' = [t \in TaskIds |->
                 IF \E i \in Slots : i < TaskCount /\ TaskList[i].Task = t
                 THEN TASK_INVALID_ID ELSE Id[t]]
    /\ Hot' = FlagHot(Hot)
    /\ TaskCount' = 0
    /\ h' = [HCall(HTouch(h, {TaskList[i].Task :
                                 i \in {j \in Slots : j < TaskCount}},
                          FALSE, TRUE, FALSE),
                   "Clear", 0, 0, FALSE, TRUE,
                   [i \in 1..TaskCount |->
                       <<TaskList[i - 1].Task, TASK_INVALID_ID>>])
                EXCEPT !.attached = {}]
    /\ UNCHANGED <<cfgVars, osVars, trace, now, pc, li, locVars, wakeId,
                   traceVars, adapterVars>>


(***************************************************************************)
(* TaskRegistry::SetPeriod, SetEnabled, SetPeriodAndEnabled: one guarded   *)
(* step each, callable from cooperative code and from an ISR.              *)
(***************************************************************************)
SetPeriod(taskId, p) ==
    /\ IF ValidateTaskId(taskId)
       THEN /\ TaskList' = [TaskList EXCEPT ![taskId] = TrackerSetPeriod(@, p)]
            /\ Hot' = FlagHot(Hot)
            /\ h' = HCall(HPair(HTouch(h, {TaskList[taskId].Task},
                                       FALSE, FALSE, TRUE),
                                taskId, TaskList[taskId].Enabled, p),
                          "SetPeriod", taskId, p, FALSE, TRUE, <<>>)
       ELSE /\ UNCHANGED <<TaskList, Hot>>
            /\ h' = HCall(h, "SetPeriod", taskId, p, FALSE, TRUE, <<>>)
    /\ pc' = IsrPc
    /\ UNCHANGED <<TaskCount, Id, cfgVars, osVars, trace, now, li, locVars,
                   wakeId, traceVars, adapterVars>>

SetEnabled(taskId, enabled) ==
    /\ IF ValidateTaskId(taskId)
       THEN /\ TaskList' = [TaskList EXCEPT
                               ![taskId] = TrackerSetEnabled(@, enabled, now)]
            /\ Hot' = FlagHot(Hot)
            /\ h' = HCall(HSet(HPair(HTouch(h, {TaskList[taskId].Task},
                                            enabled /\ ~TaskList[taskId].Enabled
                                                /\ TaskList[taskId].Period > 0,
                                            ~enabled, FALSE),
                                     taskId, enabled, TaskList[taskId].Period),
                               TaskList[taskId].Task, enabled, FALSE),
                          "SetEnabled", taskId, 0, enabled, TRUE, <<>>)
       ELSE /\ UNCHANGED <<TaskList, Hot>>
            /\ h' = HCall(h, "SetEnabled", taskId, 0, enabled, TRUE, <<>>)
    /\ pc' = IsrPc
    /\ UNCHANGED <<TaskCount, Id, cfgVars, osVars, trace, now, li, locVars,
                   wakeId, traceVars, adapterVars>>

SetPeriodAndEnabled(taskId, p, enabled) ==
    /\ IF ValidateTaskId(taskId)
       THEN /\ TaskList' = [TaskList EXCEPT
                   ![taskId] = TrackerSetPeriodAndEnabled(@, p, enabled, now)]
            /\ Hot' = FlagHot(Hot)
            /\ h' = HCall(HDue(HSet(HPair(HTouch(h, {TaskList[taskId].Task},
                                                 enabled
                                                   /\ ~TaskList[taskId].Enabled
                                                   /\ p > 0,
                                                 ~enabled, TRUE),
                                          taskId, enabled, p),
                                    TaskList[taskId].Task, enabled, FALSE),
                               IF p = 0 /\ enabled
                               THEN {TaskList[taskId].Task} ELSE {}),
                          "SetPeriodAndEnabled", taskId, p, enabled, TRUE, <<>>)
       ELSE /\ UNCHANGED <<TaskList, Hot>>
            /\ h' = HCall(h, "SetPeriodAndEnabled", taskId, p, enabled, TRUE,
                          <<>>)
    /\ pc' = IsrPc
    /\ UNCHANGED <<TaskCount, Id, cfgVars, osVars, trace, now, li, locVars,
                   wakeId, traceVars, adapterVars>>

(***************************************************************************)
(* TaskRegistry::WakeFromISR.  From an ISR its two stores are one step;    *)
(* from cooperative code an ISR can fall between them.                     *)
(***************************************************************************)
\* A wake began on the tasks in S.
HWake(hh, S) ==
    HDue([hh EXCEPT !.woke = [t \in TaskIds |->
                                 (t \in S /\ "wake" \in hh.track) \/ @[t]],
                    !.wokeS = [t \in TaskIds |->
                                  (t \in S /\ "wakeStrict" \in hh.track)
                                      \/ @[t]]],
         S)

\* WakeFromISR returns, having woken tracker tr.
HWakeReturn(hh, tr) ==
    IF "atomic" \in hh.track
    THEN [hh EXCEPT !.isr = <<>>,
                    !.wakeEnd = [isr |-> hh.isr,
                                 final |-> <<tr.Period, tr.Enabled>>]]
    ELSE IF tr.Task \notin TaskIds THEN hh
    ELSE [hh EXCEPT
            !.wakeOk = @ /\ (hh.woke[tr.Task] => tr.Period = 0 /\ tr.Enabled),
            !.wakeOkS = @ /\ (hh.wokeS[tr.Task] => tr.Period = 0 /\ tr.Enabled)]

TrackerWakeKeepPeriod(tr) == [tr EXCEPT !.Enabled = TRUE]

TrackerWake(tr) == [tr EXCEPT !.Period = 0, !.Enabled = TRUE]

WakeFromISR(taskId) ==
    /\ IF ValidateTaskId(taskId)
       THEN /\ TaskList' = [TaskList EXCEPT ![taskId] = TrackerWake(@)]
            /\ Hot' = FlagHot(Hot)
            /\ h' = HCall(HPair(HWakeReturn(HWake(h, {TaskList[taskId].Task}),
                                            TaskList'[taskId]),
                                taskId, TaskList'[taskId].Enabled,
                                TaskList'[taskId].Period),
                          "WakeFromISR", taskId, 0, FALSE, TRUE, <<>>)
            /\ signaled' = WakeFromInterrupt(signaled)
       ELSE /\ UNCHANGED <<TaskList, Hot, signaled>>
            /\ h' = HCall(h, "WakeFromISR", taskId, 0, FALSE, TRUE, <<>>)
    /\ pc' = IsrPc
    /\ UNCHANGED <<TaskCount, Id, cfgVars, sleepDuration, trace, now, li,
                   locVars, wakeId, traceVars, adapterVars>>

\* Cooperative call, up to and including the store Period = 0.
WakeStorePeriod(taskId) ==
    /\ Coop
    /\ ValidateTaskId(taskId)
    /\ TaskList' = [TaskList EXCEPT ![taskId].Period = 0]
    /\ wakeId' = taskId
    /\ h' = HWake(h, {TaskList[taskId].Task})
    /\ UNCHANGED <<TaskCount, Hot, Id, cfgVars, osVars, trace, now, pc, li,
                   locVars, traceVars, adapterVars>>

\* Cooperative call, the stores Enabled = true and Hot = true, and return.
WakeStoreEnabled ==
    /\ wakeId # NoWake
    /\ TaskList' = [TaskList EXCEPT ![wakeId].Enabled = TRUE]
    /\ Hot' = FlagHot(Hot)
    /\ wakeId' = NoWake
    /\ signaled' = WakeFromInterrupt(signaled)
    /\ h' = HWakeReturn(h, TaskList'[wakeId])
    /\ UNCHANGED <<TaskCount, Id, cfgVars, sleepDuration, trace, now, pc, li,
                   locVars, traceVars, adapterVars>>

(***************************************************************************)
(* The dispatcher: Loop() of the three scheduler variants, with            *)
(* TaskTracker::RunIfTime unfolded into its unguarded steps.               *)
(***************************************************************************)
MaxIterations == 2
\* Width of the microsecond clock and of the accumulators of the aggregate
\* profiler.
MicroMod == 4

\* micros() advances by one.
MicroTick ==
    /\ micros' = (micros + 1) % MicroMod
    /\ UNCHANGED <<regVars, cfgVars, osVars, trace, now, pc, li, locVars,
                   wakeId, TraceTaskCount, TraceIterations, loopStart,
                   measure, TraceBusy, TraceScheduling, adapterVars, h>>

\* The accumulators Trace.Busy and Trace.Scheduling after
\* "+= later - earlier" in uint32_t arithmetic.
Accumulate(acc, later, earlier) ==
    (acc + ((later - earlier + MicroMod) % MicroMod)) % MicroMod

\* measure = Platform::GetProfilerTimestamp() of SchedulerBaseProfiling.
Measured == IF variant = "BaseProfiling" THEN micros ELSE measure

\* Trace.Busy += Platform::GetProfilerTimestamp() - measure
BusyAfterRun ==
    IF variant = "BaseProfiling" THEN Accumulate(TraceBusy, micros, measure)
    ELSE TraceBusy

\* Trace.Scheduling += measure - loopStart
SchedulingAfterLoop ==
    IF variant = "BaseProfiling"
    THEN Accumulate(TraceScheduling, measure, loopStart)
    ELSE TraceScheduling

\* Trace.Iterations++ at the end of Loop() of the profiling schedulers.
IterationsAfterLoop ==
    IF variant = "NoProfiling" THEN TraceIterations
    ELSE Min(TraceIterations + 1, MaxIterations)

\* A Loop call returns.
HLoopDone(hh) ==
    [hh EXCEPT !.loops = IF "trace" \in hh.track
                         THEN Min(@ + 1, MaxIterations) ELSE @,
               !.lastGet = "none",
               !.wakeInSleep = FALSE,
               !.retimed = FALSE]

\* Loop() up to the first loop test.
LoopBegin ==
    /\ pc = "idle" /\ wakeId = NoWake
    /\ IF variant = "FullProfiling"
       THEN /\ TraceTaskCount' = TaskCount
            /\ TraceIterations' =
                  IF TraceIterations # 0 /\ TraceTaskCount # TaskCount
                  THEN 0 ELSE TraceIterations
       ELSE UNCHANGED <<TraceTaskCount, TraceIterations>>
    /\ loopStart' = Measured /\ measure' = Measured
    /\ Hot' = IF IdleSleepEnabled THEN FALSE ELSE Hot
    /\ li' = 0
    /\ pc' = "loop"
    /\ h' = HLoop([HLoopTraces(h) EXCEPT
                            !.passIrqs = h.idleIrqs, !.idleIrqs = 0,
                            !.loops = IF TraceIterations' = 0 THEN 0 ELSE @,
                            !.passes = [t \in TaskIds |->
                                           IF "late" \in h.track /\ h.steady[t]
                                           THEN Min(@[t] + 1, 2) ELSE @[t]]])
    /\ UNCHANGED <<TaskList, TaskCount, Id, cfgVars, osVars, trace, now,
                   locVars, wakeId, micros, TraceBusy, TraceScheduling,
                   adapterVars>>

\* i < bound: RunIfTime on Tasks[i] begins with the read of Enabled.
RunIfTimeEnabled ==
    /\ pc = "loop" /\ li < LoopBound
    /\ IF TaskList[li].Enabled
       THEN /\ pc' = "period" /\ li' = li
            /\ measure' = measure
            /\ h' = HEval(HOrder(h, li), TaskList[li],
                          TaskList[li].Task \in TaskIds
                                           /\ Id[TaskList[li].Task] = li)
       ELSE /\ pc' = "loop" /\ li' = li + 1
            /\ measure' = Measured
            /\ h' = HDecided(HNoRun(HEval(HOrder(h, li), TaskList[li],
                                          TaskList[li].Task \in TaskIds
                                              /\ Id[TaskList[li].Task] = li),
                                    TaskList[li].Task),
                             li, now, FALSE)
    /\ UNCHANGED <<regVars, cfgVars, osVars, trace, now, locVars, wakeId,
                   TraceTaskCount, TraceIterations, micros, loopStart,
                   TraceBusy, TraceScheduling, adapterVars>>

\* period = Period
RunIfTimePeriod ==
    /\ pc = "period"
    /\ period' = TaskList[li].Period
    /\ pc' = "stamp"
    /\ UNCHANGED <<regVars, cfgVars, osVars, trace, now, li, timestamp,
                   elapsed, shortestTime, wakeId, traceVars, adapterVars, h>>

\* timestamp = Platform::GetTimestamp()
RunIfTimeTimestamp ==
    /\ pc = "stamp"
    /\ timestamp' = now
    /\ pc' = "decide"
    /\ h' = [h EXCEPT !.evalAge = IF TaskList[li].Task \in TaskIds
                                  THEN h.sinceAttach[TaskList[li].Task]
                                  ELSE 0]
    /\ UNCHANGED <<regVars, cfgVars, osVars, trace, now, li, period, elapsed,
                   shortestTime, wakeId, traceVars, adapterVars>>

IsAdapter(task) == kind # "none" /\ task = 1

\* elapsed = timestamp - LastRun; the firing decision; Task->Run() is
\* entered, or RunIfTime returns false.
RunIfTimeDecide ==
    /\ pc = "decide"
    /\ IF IsTime(period, Sub32(timestamp, TaskList[li].LastRun))
       THEN /\ pc' = "run"
            /\ li' = li
            /\ elapsed' = Sub32(timestamp, TaskList[li].LastRun)
            /\ h' = HDecided(HRun(h, TaskList[li].Task, period, elapsed',
                                  TaskList[li].Period, TaskList[li].Enabled),
                             li, timestamp, TRUE)
            /\ apc' = IF IsAdapter(TaskList[li].Task) THEN "snap" ELSE apc
            /\ UNCHANGED <<period, timestamp, measure>>
       ELSE /\ pc' = "loop"
            /\ li' = li + 1
            /\ period' = 0 /\ timestamp' = 0 /\ elapsed' = 0
            /\ h' = HDecided(HNoRun(h, TaskList[li].Task), li, timestamp,
                             FALSE)
            /\ measure' = Measured
            /\ UNCHANGED apc
    /\ UNCHANGED <<regVars, cfgVars, osVars, trace, now, shortestTime, wakeId,
                   TraceTaskCount, TraceIterations, micros, loopStart,
                   TraceBusy, TraceScheduling, InterruptFlag, InterruptCount,
                   InterruptTimestamp, flag, interruptPending, runTimestamp,
                   tsVars>>

\* if (Tasks[i].RunIfTime()) Hot = true; the NoProfiling loop without idle
\* sleep leaves Hot alone.
HotAfterRunKept(hot) == hot

HotAfterRun(hot) ==
    IF variant = "NoProfiling" /\ ~IdleSleepEnabled THEN hot ELSE TRUE

\* Task->Run() has returned: RunIfTime updates LastRun of its own tracker
\* object (slot i of the array) and returns true; the loop body adds the
\* time since measure to Trace.Busy, sets Hot and reads measure again.
RunIfTimeReturn ==
    /\ pc = "run" /\ wakeId = NoWake /\ apc \in {"none", "done"}
    /\ TaskList' = [TaskList EXCEPT ![li].LastRun =
                       LastRunAfterRun(@, period, elapsed, timestamp)]
    /\ Hot' = HotAfterRun(Hot)
    /\ li' = li + 1
    /\ pc' = "loop"
    /\ apc' = "none"
    /\ period' = 0 /\ timestamp' = 0 /\ elapsed' = 0
    /\ TraceBusy' = BusyAfterRun
    /\ measure' = Measured
    /\ h' = [HAccumulate(h, li) EXCEPT !.fire = NoFire]
    /\ UNCHANGED <<TaskCount, Id, cfgVars, osVars, trace, now, shortestTime,
                   wakeId, TraceTaskCount, TraceIterations, micros, loopStart,
                   TraceScheduling, InterruptFlag, InterruptCount,
                   InterruptTimestamp, flag, interruptPending, runTimestamp,
                   tsVars>>

\* The loop has ended; without idle sleep, or when Hot, Loop() returns.
LoopEnd ==
    /\ pc = "loop" /\ li >= LoopBound
    /\ ~(IdleSleepEnabled /\ ~Hot)
    /\ pc' = "idle"
    /\ TraceIterations' = IterationsAfterLoop
    /\ TraceScheduling' = SchedulingAfterLoop
    /\ h' = HLoopDone(h)
    /\ UNCHANGED <<regVars, cfgVars, osVars, trace, now, li, locVars, wakeId,
                   TraceTaskCount, micros, loopStart, measure, TraceBusy,
                   adapterVars>>

(***************************************************************************)
(* The interrupt adapters (Task/InterruptFlagTask.h, InterruptSignalTask.h,*)
(* InterruptEventTask.h): task 1 is the CallbackTask of the given kind.    *)
(* InterruptCount stands for InterruptSignal of the signal adapter too.    *)
(***************************************************************************)
MaxValue == CounterMod - 1

\* DynamicTask::WakeFromISR of a task whose Id is taskId.
WakeList(tl, taskId) ==
    IF ValidateTaskId(taskId) THEN [tl EXCEPT ![taskId] = TrackerWake(@)]
    ELSE tl

\* OnInterrupt of the event adapter: the timestamp source is sampled when
\* the count is 0.
EventTimestampLatest(count, ts) == now

EventTimestamp(count, ts) == IF count = 0 THEN now ELSE ts

\* OnInterrupt of the signal and event adapters: the counter saturates at
\* MaxValue.
CountAfterInterruptOnce(count) == IF count = 0 THEN 1 ELSE count

CountAfterInterrupt(count) == IF count # MaxValue THEN count + 1 ELSE count

\* Run: if (flag && Listener != nullptr), if (signal > 0 && ...).
ListenerCalledAlways(snapshot) == TRUE

ListenerCalled(snapshot) == snapshot > 0

\* History of an OnInterrupt call ("listener").
HInterrupt(hh) ==
    IF "listener" \notin hh.track THEN hh
    ELSE [hh EXCEPT !.firstTs = IF hh.irqs = 0 THEN now ELSE @,
                    !.lastTs = now,
                    !.calls = @ + 1,
                    !.saturated = @ \/ (kind # "flag"
                                          /\ InterruptCount = MaxValue)]

\* History of the snapshot of Run ("listener").
HSnapshot(hh) ==
    IF "listener" \notin hh.track THEN hh
    ELSE [hh EXCEPT !.expectTs = hh.firstTs,
                    !.spread = hh.irqs > 1 /\ hh.firstTs # hh.lastTs,
                    !.firstTs = 0, !.lastTs = 0]

\* History of the listener step of Run ("listener"); expect is read before
\* the step clears it.
HListener(hh) ==
    IF "listener" \notin hh.track \/ ~ListenerCalled(flag) THEN hh
    ELSE [hh EXCEPT !.cb = [n |-> 1 - hh.cb.n, count |-> flag,
                            ts |-> IF kind = "event" THEN runTimestamp ELSE 0,
                            due |-> hh.expect,
                            dueTs |-> IF kind = "event" THEN hh.expectTs
                                      ELSE 0,
                            spread |-> hh.spread,
                            inRun |-> pc = "run" /\ apc = "listener"],
                    !.given = @ + flag]

\* AttachListener up to the return of Attach(0, false) and the store of
\* Listener; an ISR can fall between this and the guarded clear.
AttachListener ==
    /\ Coop /\ pc = "idle"
    /\ kind # "none"
    /\ TaskCount < TaskCapacity /\ ~TaskExists(1)
    /\ TaskList' = [TaskList EXCEPT ![TaskCount] = BindTask(@, 1, 0, FALSE, now)]
    /\ Id' = [Id EXCEPT ![1] = TaskCount]
    /\ Hot' = FlagHot(Hot)
    /\ TaskCount' = TaskCount + 1
    /\ signaled' = WakeFromInterrupt(signaled)
    /\ pc' = "attach"
    /\ h' = [h EXCEPT !.attached = @ \cup {1}]
    /\ UNCHANGED <<cfgVars, sleepDuration, trace, now, li, locVars, wakeId,
                   traceVars, adapterVars>>

\* AttachListener: the flag / counter is cleared under a guard, and
\* AttachListener returns true.
AttachListenerClear ==
    /\ pc = "attach"
    /\ InterruptFlag' = IF kind = "flag" THEN FALSE ELSE InterruptFlag
    /\ InterruptCount' = IF kind = "flag" THEN InterruptCount ELSE 0
    /\ pc' = "idle"
    /\ h' = [h EXCEPT !.irqs = 0, !.idleIrqs = 0,
                      !.calls = 0, !.given = 0, !.saturated = FALSE,
                      !.firstTs = 0, !.lastTs = 0]
    /\ UNCHANGED <<regVars, cfgVars, osVars, trace, now, li, locVars, wakeId,
                   traceVars, InterruptTimestamp, apc, flag,
                   interruptPending, runTimestamp, tsVars>>

\* OnInterrupt, called from an ISR.
OnInterrupt ==
    /\ kind # "none"
    /\ h.irqs < MaxIrq /\ h.calls < MaxIrq
    /\ CASE kind = "flag" ->
              /\ InterruptFlag' = TRUE
              /\ TaskList' = IF InterruptFlag THEN TaskList
                             ELSE WakeList(TaskList, Id[1])
              /\ Hot' = IF InterruptFlag THEN Hot
                        ELSE (Hot \/ ValidateTaskId(Id[1]))
              /\ UNCHANGED <<InterruptCount, InterruptTimestamp>>
         [] kind = "signal" ->
              /\ InterruptCount' = CountAfterInterrupt(InterruptCount)
              /\ TaskList' = WakeList(TaskList, Id[1])
              /\ Hot' = (Hot \/ ValidateTaskId(Id[1]))
              /\ UNCHANGED <<InterruptFlag, InterruptTimestamp>>
         [] kind = "event" ->
              /\ InterruptCount' = CountAfterInterrupt(InterruptCount)
              /\ InterruptTimestamp' =
                     EventTimestamp(InterruptCount, InterruptTimestamp)
              /\ TaskList' = IF InterruptCount = 0
                             THEN WakeList(TaskList, Id[1]) ELSE TaskList
              /\ Hot' = IF InterruptCount = 0
                        THEN (Hot \/ ValidateTaskId(Id[1])) ELSE Hot
              /\ UNCHANGED InterruptFlag
    /\ signaled' = IF /\ ValidateTaskId(Id[1])
                       /\ CASE kind = "flag" -> ~InterruptFlag
                            [] kind = "signal" -> TRUE
                            [] kind = "event" -> InterruptCount = 0
                    THEN WakeFromInterrupt(signaled) ELSE signaled
    /\ pc' = IsrPc
    /\ h' = [HInterrupt(h) EXCEPT
                 !.irqs = @ + 1,
                 !.idleIrqs = IF pc = "idle" THEN @ + 1 ELSE @]
    /\ UNCHANGED <<TaskCount, Id, cfgVars, sleepDuration, trace, now, li,
                   locVars, wakeId, traceVars, apc, flag, interruptPending,
                   runTimestamp, tsVars>>

\* Run: the guarded snapshot-and-clear of the flag / counter (and, in the
\* same guard, the read of InterruptTimestamp of the event adapter).
AdapterRunSnapshot ==
    /\ pc = "run" /\ apc = "snap"
    /\ flag' = IF kind = "flag" THEN (IF InterruptFlag THEN 1 ELSE 0)
               ELSE InterruptCount
    /\ runTimestamp' = IF kind = "event" THEN InterruptTimestamp
                       ELSE runTimestamp
    /\ InterruptFlag' = IF kind = "flag" THEN FALSE ELSE InterruptFlag
    /\ InterruptCount' = IF kind = "flag" THEN InterruptCount ELSE 0
    /\ apc' = "listener"
    /\ h' = [HSnapshot(h) EXCEPT
                 !.expect = IF kind = "flag" THEN Min(h.irqs, 1)
                            ELSE Min(h.irqs, MaxValue),
                 !.irqs = 0]
    /\ UNCHANGED <<regVars, cfgVars, osVars, trace, now, pc, li, locVars,
                   wakeId, traceVars, InterruptTimestamp, interruptPending,
                   tsVars>>

\* Run: the listener is called iff the snapshot is set / non-zero, with the
\* snapshot count (and the snapshot timestamp of the event adapter).
AdapterRunListener ==
    /\ pc = "run" /\ apc = "listener"
    /\ apc' = "pending"
    /\ h' = [HListener(h) EXCEPT !.delivered = @ /\ (flag = h.expect),
                                 !.expect = 0]
    /\ UNCHANGED <<regVars, cfgVars, osVars, trace, now, pc, li, locVars,
                   wakeId, traceVars, InterruptFlag, InterruptCount,
                   InterruptTimestamp, flag, interruptPending, runTimestamp,
                   tsVars>>

\* Run: interruptPending = InterruptFlag (InterruptSignal > 0,
\* InterruptCount != 0), read without a guard.
AdapterRunPending ==
    /\ pc = "run" /\ apc = "pending"
    /\ interruptPending' = IF kind = "flag" THEN InterruptFlag
                           ELSE InterruptCount # 0
    /\ apc' = "setenabled"
    /\ UNCHANGED <<regVars, cfgVars, osVars, trace, now, pc, li, locVars,
                   wakeId, traceVars, InterruptFlag, InterruptCount,
                   InterruptTimestamp, flag, runTimestamp, tsVars, h>>

\* Run: SetEnabled(interruptPending), and Run returns.
AdapterRunSetEnabled ==
    /\ pc = "run" /\ apc = "setenabled"
    /\ IF ValidateTaskId(Id[1])
       THEN /\ TaskList' = [TaskList EXCEPT ![Id[1]] =
                               TrackerSetEnabled(@, interruptPending, now)]
            /\ Hot' = FlagHot(Hot)
       ELSE UNCHANGED <<TaskList, Hot>>
    /\ apc' = "done"
    /\ flag' = 0
    /\ interruptPending' = FALSE
    /\ runTimestamp' = 0
    /\ UNCHANGED <<TaskCount, Id, cfgVars, osVars, trace, now, pc, li,
                   locVars, wakeId, traceVars, InterruptFlag, InterruptCount,
                   InterruptTimestamp, tsVars, h>>

(***************************************************************************)
(* AbstractScheduler::IdleSleep on a platform without an OS, reached from  *)
(* Loop() when IdleSleepEnabled and no task ran.  No step of it runs under *)
(* a guard except the read of (Enabled, Period) in TimeUntilNextRun.       *)
(***************************************************************************)

\* TaskTracker::TimeUntilNextRun after its guarded read gave p.
TimeUntilNextRun(p, ts, lastRun) ==
    IF p = 0 THEN 0
    ELSE IF Sub32(ts, lastRun) >= p THEN 0
    ELSE p - Sub32(ts, lastRun)

\* The template argument of GetTimeUntilNextRun: IdleSleep passes 1 with
\* an OS and 0 without.
Shortest == IF PlatformOS THEN 1 ELSE 0

\* if (!Hot) IdleSleep(): GetTimestamp(), and GetTimeUntilNextRun up to its
\* first loop test.
IdleSleepBegin ==
    /\ pc = "loop" /\ li >= LoopBound
    /\ IdleSleepEnabled /\ ~Hot
    /\ timestamp' = now
    /\ shortestTime' = UINT32_MAX
    /\ li' = 0
    /\ pc' = "scan"
    /\ UNCHANGED <<regVars, cfgVars, osVars, trace, now, period, elapsed,
                   wakeId, traceVars, adapterVars, h>>

\* TimeUntilNextRun: the guarded read of Enabled and Period.
TimeUntilNextRunRead ==
    /\ pc = "scan" /\ li < TaskCount
    /\ period' = IF TaskList[li].Enabled THEN TaskList[li].Period
                 ELSE UINT32_MAX
    /\ pc' = "until"
    /\ UNCHANGED <<regVars, cfgVars, osVars, trace, now, li, timestamp,
                   elapsed, shortestTime, wakeId, traceVars, adapterVars, h>>

\* TimeUntilNextRun returns; GetTimeUntilNextRun keeps the minimum and
\* leaves its loop when it is at most Shortest.
TimeUntilNextRunReturn ==
    /\ pc = "until"
    /\ LET timeUntilNext ==
               TimeUntilNextRun(period, timestamp, TaskList[li].LastRun)
       IN  /\ shortestTime' = Min(shortestTime, timeUntilNext)
           /\ IF timeUntilNext < shortestTime /\ timeUntilNext <= Shortest
              THEN pc' = "hot" /\ li' = li
              ELSE pc' = "scan" /\ li' = li + 1
    /\ period' = 0
    /\ UNCHANGED <<regVars, cfgVars, osVars, trace, now, timestamp, elapsed,
                   wakeId, traceVars, adapterVars, h>>

\* IdleSleep() has returned: Loop() counts the iteration and returns.
LoopReturns ==
    /\ pc' = "idle"
    /\ TraceIterations' = IterationsAfterLoop
    /\ TraceScheduling' = SchedulingAfterLoop
    /\ h' = HLoopDone(h)
    /\ UNCHANGED <<TraceTaskCount, micros, loopStart, measure, TraceBusy>>

\* GetTimeUntilNextRun<0>(timestamp) != 0 && !Hot
IdleSleepCheckHot ==
    /\ pc = "hot" \/ (pc = "scan" /\ li >= TaskCount)
    /\ ~PlatformOS
    /\ IF shortestTime # 0 /\ ~Hot
       THEN /\ pc' = "clock"
            /\ UNCHANGED <<timestamp, shortestTime, traceVars, h>>
       ELSE LoopReturns /\ timestamp' = 0 /\ shortestTime' = 0
    /\ UNCHANGED <<regVars, cfgVars, osVars, trace, now, li, period, elapsed,
                   wakeId, adapterVars>>

\* && timestamp == Platform::GetTimestamp()
IdleSleepCheckClock ==
    /\ pc = "clock"
    /\ IF timestamp = now
       THEN pc' = "commit" /\ UNCHANGED <<traceVars, h>>
       ELSE LoopReturns
    /\ timestamp' = 0 /\ shortestTime' = 0
    /\ UNCHANGED <<regVars, cfgVars, osVars, trace, now, li, period, elapsed,
                   wakeId, adapterVars>>

\* Platform::IdleSleep(): the processor halts until the next interrupt.
PlatformIdleSleep ==
    /\ pc = "commit"
    /\ pc' = "asleep"
    /\ UNCHANGED <<regVars, cfgVars, osVars, trace, now, li, locVars, wakeId,
                   traceVars, adapterVars, h>>

\* An interrupt has released the processor: IdleSleep and Loop() return.
IdleSleepReturn ==
    /\ pc = "awake"
    /\ LoopReturns
    /\ UNCHANGED <<regVars, cfgVars, osVars, trace, now, li, locVars, wakeId,
                   adapterVars>>

(***************************************************************************)
(* AbstractScheduler::IdleSleep with an OS (HARMONIC_PLATFORM_OS):         *)
(* Platform::IdleSleep(semaphore, sleepDuration) and xSemaphoreTake of     *)
(* Platform/IdleSleep.h.                                                   *)
(***************************************************************************)
\* The timeout left of a take that waits until the semaphore is given.
Forever == -1

\* if (sleepDuration > 1) and, in Platform::IdleSleep,
\* if (sleepDuration >= tickPeriod).
TakesSemaphore(duration) == duration > 1 /\ duration >= tickPeriod

\* sleepDuration = GetTimeUntilNextRun<1>(...) has returned; the semaphore
\* is taken with the timeout sleepDuration - tickPeriod, or IdleSleep
\* returns.
OsIdleSleepDecide ==
    /\ pc = "hot" \/ (pc = "scan" /\ li >= TaskCount)
    /\ PlatformOS
    /\ IF TakesSemaphore(shortestTime)
       THEN /\ pc' = "take"
            /\ sleepDuration' = shortestTime - tickPeriod
            /\ UNCHANGED <<timestamp, shortestTime, traceVars, h>>
       ELSE /\ LoopReturns
            /\ timestamp' = 0 /\ shortestTime' = 0
            /\ UNCHANGED sleepDuration
    /\ UNCHANGED <<regVars, cfgVars, signaled, trace, now, li, period,
                   elapsed, wakeId, adapterVars>>

\* xSemaphoreTake(sem, timeout): a given semaphore is taken at once;
\* otherwise the thread blocks, for a timeout of 0 until it is given.
SemaphoreTake ==
    /\ pc = "take"
    /\ IF signaled
       THEN /\ signaled' = FALSE
            /\ LoopReturns
            /\ timestamp' = 0 /\ shortestTime' = 0 /\ sleepDuration' = 0
       ELSE /\ pc' = "blocked"
            /\ sleepDuration' = IF sleepDuration = 0 THEN Forever
                                ELSE sleepDuration
            /\ UNCHANGED <<signaled, timestamp, shortestTime, traceVars, h>>
    /\ UNCHANGED <<regVars, cfgVars, trace, now, li, period, elapsed,
                   wakeId, adapterVars>>

\* The blocked take is released by a give: it takes the semaphore.
SemaphoreGiven ==
    /\ pc = "blocked" /\ signaled
    /\ signaled' = FALSE
    /\ LoopReturns
    /\ timestamp' = 0 /\ shortestTime' = 0 /\ sleepDuration' = 0
    /\ UNCHANGED <<regVars, cfgVars, trace, now, li, period, elapsed,
                   wakeId, adapterVars>>

\* The blocked take times out.
SemaphoreTimeout ==
    /\ pc = "blocked" /\ ~signaled /\ sleepDuration = 0
    /\ LoopReturns
    /\ timestamp' = 0 /\ shortestTime' = 0
    /\ UNCHANGED <<regVars, cfgVars, osVars, trace, now, li, period,
                   elapsed, wakeId, adapterVars>>

(***************************************************************************)
(* The registry and the dispatcher, driven from cooperative code.          *)
(***************************************************************************)
\* The largest target iteration count given to a TS::Task.
MaxTarget == 2

TASK_FOREVER == -1

TargetCounts == TASK_FOREVER..MaxTarget

\* The state after construction of the registry and of the scheduler.
Constructed ==
    /\ TaskList = [i \in Slots |-> EmptyTracker]
    /\ TaskCount = 0
    /\ Hot = FALSE
    /\ Id = [t \in TaskIds |-> TASK_INVALID_ID]
    /\ now = 0
    /\ pc = "idle"
    /\ li = 0
    /\ period = 0 /\ timestamp = 0 /\ elapsed = 0 /\ shortestTime = 0
    /\ wakeId = NoWake
    /\ TraceTaskCount = 0 /\ TraceIterations = 0
    /\ trace = NoTrace
    /\ micros = 0 /\ loopStart = 0 /\ measure = 0
    /\ TraceBusy = 0 /\ TraceScheduling = 0
    /\ signaled = FALSE /\ sleepDuration = 0
    /\ InterruptFlag = FALSE /\ InterruptCount = 0 /\ InterruptTimestamp = 0
    /\ apc = "none" /\ flag = 0 /\ interruptPending = FALSE
    /\ runTimestamp = 0
    /\ Iterations = 0

Init ==
    /\ Constructed
    /\ TaskCapacity \in 1..MaxTaskCount
    /\ variant \in Variants
    /\ IdleSleepEnabled = FALSE
    /\ PlatformOS = FALSE /\ tickPeriod = 0
    /\ kind = "none"
    /\ TargetIterations = 0
    /\ h = HInit

Next ==
    \/ \E task \in 0..NumTasks, enabled \in BOOLEAN : Attach(task, 0, enabled)
    \/ \E taskId \in Slots \cup {TASK_INVALID_ID} : Detach(taskId)
    \/ \E task \in TaskIds : DetachTask(task)
    \/ \E t \in TaskIds : TaskDetach(t)
    \/ Clear
    \/ LoopBegin
    \/ RunIfTimeEnabled
    \/ RunIfTimePeriod
    \/ RunIfTimeTimestamp
    \/ RunIfTimeDecide
    \/ RunIfTimeReturn
    \/ LoopEnd

Spec == Init /\ [][Next]_vars


(***************************************************************************)
(* One task on a registry of capacity 1, the clock running, the           *)
(* dispatcher without profiling or idle sleep.                             *)
(***************************************************************************)
InitOneTask(track) ==
    /\ Constructed
    /\ TaskCapacity = 1
    /\ variant = "NoProfiling"
    /\ IdleSleepEnabled = FALSE
    /\ PlatformOS = FALSE /\ tickPeriod = 0
    /\ kind = "none"
    /\ TargetIterations = 0
    /\ h = [HInit EXCEPT !.track = track]

\* The task is attached enabled and then left alone.
InitPeriodic == InitOneTask({"gap"})

NextPeriodic ==
    \/ \E p \in Periods : Attach(1, p, TRUE)
    \/ Tick
    \/ LoopBegin
    \/ RunIfTimeEnabled
    \/ RunIfTimePeriod
    \/ RunIfTimeTimestamp
    \/ RunIfTimeDecide
    \/ RunIfTimeReturn
    \/ LoopEnd

SpecPeriodic == InitPeriodic /\ [][NextPeriodic]_vars

\* The task is attached, detached, and mutated from any context: between
\* any two steps of the dispatcher (an ISR) and while Run is executing.
NextIsr ==
    \/ \E p \in Periods, enabled \in BOOLEAN : Attach(1, p, enabled)
    \/ TaskDetach(1)
    \/ \E p \in Periods : SetPeriod(0, p)
    \/ \E enabled \in BOOLEAN : SetEnabled(0, enabled)
    \/ \E p \in Periods, enabled \in BOOLEAN : SetPeriodAndEnabled(0, p, enabled)
    \/ WakeFromISR(0)
    \/ WakeStorePeriod(0)
    \/ WakeStoreEnabled
    \/ TickEarly
    \/ LoopBegin
    \/ RunIfTimeEnabled
    \/ RunIfTimePeriod
    \/ RunIfTimeTimestamp
    \/ RunIfTimeDecide
    \/ RunIfTimeReturn
    \/ LoopEnd

InitEnable == InitOneTask({"enable"})

SpecEnable == InitEnable /\ [][NextIsr]_vars

InitWake == InitOneTask({"wake", "wakeStrict"})

SpecWake == InitWake /\ [][NextIsr]_vars

InitPair == InitOneTask({"pair"})

SpecPair == InitPair /\ [][NextIsr]_vars

(***************************************************************************)
(* Properties of the registry and of the dispatch pass (Spec).             *)
(***************************************************************************)
Occupied == {i \in Slots : i < TaskCount}

RegisteredTasks == {TaskList[i].Task : i \in Occupied}

\* C1: after any sequence of Attach, Detach(id), Detach(task), Clear and
\* DynamicTask::Detach calls from cooperative code (between passes or inside
\* a Run), the registered tasks occupy exactly the slots [0, TaskCount),
\* TaskCount <= TaskCapacity, no task pointer is in two occupied slots, the
\* registered tasks are the tasks attached and not since detached, no live
\* id is the sentinel, and every registered task was last told its current
\* slot index.
C1_RegistryInvariant ==
    /\ TaskCount \in 0..TaskCapacity
    /\ \A i \in Occupied : TaskList[i].Task \in TaskIds
    /\ \A i, j \in Occupied : i # j => TaskList[i].Task # TaskList[j].Task
    /\ RegisteredTasks = h.attached
    /\ \A i \in Occupied : i # TASK_INVALID_ID /\ Id[TaskList[i].Task] = i

\* Tasks 1 and 2 were attached, task 1 was detached (task 2 moved down to
\* slot 0 and was renotified) and task 3 was attached behind it.
C1_Witness ==
    /\ TaskCount = 2 /\ TaskCapacity = 2
    /\ TaskList[0].Task = 2 /\ TaskList[1].Task = 3
    /\ Id[2] = 0 /\ Id[3] = 1 /\ Id[1] = TASK_INVALID_ID
    /\ h.attached = {2, 3}

\* Idle sleep enabled: the task is attached and woken from ISRs while the
\* dispatcher runs passes and sleeps between them.
InitSleep ==
    /\ Constructed
    /\ TaskCapacity = 1
    /\ variant \in Variants
    /\ IdleSleepEnabled = TRUE
    /\ PlatformOS = FALSE /\ tickPeriod = 0
    /\ kind = "none"
    /\ TargetIterations = 0
    /\ h = HInit

NextSleep ==
    \/ \E p \in Periods, enabled \in BOOLEAN : Attach(1, p, enabled)
    \/ WakeFromISR(0)
    \/ TickEarly
    \/ LoopBegin
    \/ RunIfTimeEnabled
    \/ RunIfTimePeriod
    \/ RunIfTimeTimestamp
    \/ RunIfTimeDecide
    \/ RunIfTimeReturn
    \/ LoopEnd
    \/ IdleSleepBegin
    \/ TimeUntilNextRunRead
    \/ TimeUntilNextRunReturn
    \/ IdleSleepCheckHot
    \/ IdleSleepCheckClock
    \/ PlatformIdleSleep
    \/ IdleSleepReturn

SpecSleep == InitSleep /\ [][NextSleep]_vars

\* One interrupt adapter of each kind on a registry of capacity 1, its ISR
\* firing between any two steps of the dispatcher and of its Run.
InitAdapter ==
    /\ Constructed
    /\ TaskCapacity = 1
    /\ variant = "NoProfiling"
    /\ IdleSleepEnabled = FALSE
    /\ PlatformOS = FALSE /\ tickPeriod = 0
    /\ kind \in {"flag", "signal", "event"}
    /\ TargetIterations = 0
    /\ h = HInit

NextAdapter ==
    \/ AttachListener
    \/ AttachListenerClear
    \/ OnInterrupt
    \/ TickEarly
    \/ LoopBegin
    \/ RunIfTimeEnabled
    \/ RunIfTimePeriod
    \/ RunIfTimeTimestamp
    \/ RunIfTimeDecide
    \/ AdapterRunSnapshot
    \/ AdapterRunListener
    \/ AdapterRunPending
    \/ AdapterRunSetEnabled
    \/ RunIfTimeReturn
    \/ LoopEnd

SpecAdapter == InitAdapter /\ [][NextAdapter]_vars

(***************************************************************************)
(* Timing properties of one task.                                          *)
(***************************************************************************)
\* C2: for a registered, enabled task with constant period P > 0 that no
\* mutator touches, two consecutive invocations of Run start at least P
\* milliseconds apart, whatever the delays between dispatcher steps.
C2_ConsecutiveRunsPeriodApart ==
    (h.fire.steady /\ h.fire.per > 0) => h.fire.gap >= h.fire.per

\* C3: a task enabled from disabled at time t with period P > 0, by
\* SetEnabled(true) or SetPeriodAndEnabled(P, true) from any context, first
\* runs at a time t' >= t + P.
C3_FirstRunAfterEnable ==
    h.fire.first => h.fire.sinceEnable >= h.fire.enPer

\* C4: after WakeFromISR on a valid id the task has period 0 and is enabled,
\* and the next evaluation of its tracker invokes Run, unless the task is
\* disabled or detached in between.
C4_WakeRunsNext == h.wakeOkS /\ ~h.missedS

\* C4 (amended): the same, unless the task is disabled, detached or given a
\* period by SetPeriod / SetPeriodAndEnabled after the wake began.
C4_WakeRunsNextUnlessRetimed == h.wakeOk /\ ~h.missed

\* The task was woken while disabled, and an evaluation that began after the
\* wake has invoked its Run although no time has passed since LastRun.
C4_Witness ==
    /\ pc = "run"
    /\ h.fire.task = 1 /\ h.fire.woke
    /\ period = 0 /\ elapsed = 0

\* C5: the (Enabled, Period) pair RunIfTime decides on is a pair the tracker
\* held at some instant of the evaluation: the pair before or the pair after
\* each mutation by an ISR, never Enabled of one and Period of another.
C5_PairNotTorn ==
    pc = "decide" => <<TRUE, period>> \in h.seen

(***************************************************************************)
(* Idle sleep (SpecSleep).                                                 *)
(***************************************************************************)
\* C6: without an OS and with idle sleep enabled, the dispatcher never
\* commits to idle sleep with a WakeFromISR unobserved: no ISR falls between
\* the re-check of Hot and of the clock and the sleep instruction, so the
\* processor is never halted while Hot is set.
C6_NoSleepWithWakePending ==
    pc = "asleep" => ~Hot

(***************************************************************************)
(* Interrupt adapters (SpecAdapter).                                       *)
(***************************************************************************)
\* C7: under every interleaving of OnInterrupt with Run, once Run has
\* returned the attached adapter is disabled only if its flag is clear and
\* its counter is zero.
C7_DisabledOnlyIfNothingPending ==
    (kind # "none" /\ ValidateTaskId(Id[1]) /\ apc = "none"
         /\ pc # "attach" /\ ~TaskList[Id[1]].Enabled)
        => (~InterruptFlag /\ InterruptCount = 0)

\* C8: flag adapter: k >= 1 OnInterrupt calls between two passes give
\* exactly one OnFlagInterrupt callback in the following pass, and no
\* interrupt gives no callback.
C8_FlagOneCallback ==
    kind = "flag" => (~h.lost /\ h.delivered)

\* C9: signal and event adapters: K OnInterrupt calls between two passes
\* give one listener call in the following pass, with count min(K, MaxValue).
C9_CountSaturates ==
    kind \in {"signal", "event"} => (~h.lost /\ h.delivered)

(***************************************************************************)
(* Detach during a dispatch pass (Spec).                                    *)
(***************************************************************************)
\* C10: a task that has been detached is not run again until it is attached
\* again: whenever Task->Run() is invoked, the task is registered.
C10_NoRunWhileDetached ==
    h.fire.task # 0 => h.fire.registered

(***************************************************************************)
(* One task enabled, disabled and re-timed from cooperative code only:     *)
(* between two Loop calls or inside a Run.                                 *)
(***************************************************************************)
CoopSetEnabled(taskId, enabled) == Coop /\ SetEnabled(taskId, enabled)

CoopSetPeriodAndEnabled(taskId, p, enabled) ==
    Coop /\ SetPeriodAndEnabled(taskId, p, enabled)

InitCoop ==
    /\ Constructed
    /\ TaskCapacity = 1
    /\ variant \in Variants
    /\ IdleSleepEnabled = FALSE
    /\ PlatformOS = FALSE /\ tickPeriod = 0
    /\ kind = "none"
    /\ TargetIterations = 0
    /\ h = [HInit EXCEPT !.track = {"set"}]

NextCoop ==
    \/ \E p \in Periods, enabled \in BOOLEAN : Attach(1, p, enabled)
    \/ \E taskId \in Slots, enabled \in BOOLEAN :
          CoopSetEnabled(taskId, enabled)
    \/ \E taskId \in Slots, p \in Periods, enabled \in BOOLEAN :
          CoopSetPeriodAndEnabled(taskId, p, enabled)
    \/ TickEarly
    \/ LoopBegin
    \/ RunIfTimeEnabled
    \/ RunIfTimePeriod
    \/ RunIfTimeTimestamp
    \/ RunIfTimeDecide
    \/ RunIfTimeReturn
    \/ LoopEnd

SpecCoop == InitCoop /\ [][NextCoop]_vars

\* C11: when SetEnabled and SetPeriodAndEnabled are called from cooperative
\* context only, the Enabled flag of every registered task equals the value
\* given by the most recent Attach / SetEnabled / SetPeriodAndEnabled call
\* for it, and every Run the dispatcher invokes is on a task whose Enabled
\* flag was true, and whose most recently set value was true, when its
\* tracker was evaluated; so a task disabled before its first run does not
\* run until it is enabled again.
C11_EnabledIsLastSet ==
    /\ \A i \in Occupied :
          TaskList[i].Enabled = h.lastSet[TaskList[i].Task]
    /\ h.fire.task # 0 => h.fire.enabled /\ h.fire.lastSet

\* A task runs after its enabled value was toggled.
C11_Witness ==
    /\ h.fire.task = 1
    /\ h.toggled[1]
    /\ h.fire.enabled

(***************************************************************************)
(* Late evaluations of one periodic task, attached enabled and left alone. *)
(***************************************************************************)
InitLate == InitOneTask({"gap", "late"})

SpecLate == InitLate /\ [][NextPeriodic]_vars

(***************************************************************************)
(* Overrunning Runs of one periodic task, attached enabled and left alone, *)
(* in the first MaxLate milliseconds.                                      *)
(***************************************************************************)
MaxLate == 7

TickLate == now < MaxLate /\ Tick

InitOverrun == InitOneTask({"gap", "late", "overrun"})

NextOverrun ==
    \/ \E p \in Periods : Attach(1, p, TRUE)
    \/ TickLate
    \/ LoopBegin
    \/ RunIfTimeEnabled
    \/ RunIfTimePeriod
    \/ RunIfTimeTimestamp
    \/ RunIfTimeDecide
    \/ RunIfTimeReturn
    \/ LoopEnd

SpecOverrun == InitOverrun /\ [][NextOverrun]_vars

\* C12: when a task with constant period P > 0 fires at an evaluation that
\* comes more than P ms after its deadline (elapsed > 2P), its next firing
\* is in the immediately following Loop call.
C12_LateRunThenBackToBack ==
    (h.fire.steady /\ h.fire.per > 0 /\ h.fire.lastElapsed > 2 * h.fire.per)
        => h.fire.passes = 1

\* C13: when a Run of a task with constant period P > 0 takes more than P
\* and less than 2P milliseconds, the task fires again in the very next
\* Loop call, and, the overrunning Run having started on time (P + 1 ms
\* after LastRun), the firing after that one starts at least P ms after it.
C13_SecondNextThirdPeriodLater ==
    /\ (h.fire.steady /\ h.fire.per > 0 /\ h.fire.dur > h.fire.per
                      /\ h.fire.dur < 2 * h.fire.per)
          => h.fire.passes = 1
    /\ (h.fire.steady /\ h.fire.per > 0 /\ h.fire.prevDur > h.fire.per
                      /\ h.fire.prevDur < 2 * h.fire.per
                      /\ h.fire.prevElapsed = h.fire.per + 1
                      /\ h.fire.prevPasses = 1)
          => h.fire.gap >= h.fire.per

(***************************************************************************)
(* RunIfTime on one task attached enabled or disabled and left alone, the  *)
(* clock wrapping (all three dispatchers).                                 *)
(***************************************************************************)
InitRunIfTime ==
    /\ Constructed
    /\ TaskCapacity = 1
    /\ variant \in Variants
    /\ IdleSleepEnabled = FALSE
    /\ PlatformOS = FALSE /\ tickPeriod = 0
    /\ kind = "none"
    /\ TargetIterations = 0
    /\ h = [HInit EXCEPT !.track = {"eval"}]

NextRunIfTime ==
    \/ \E p \in Periods, enabled \in BOOLEAN : Attach(1, p, enabled)
    \/ Tick
    \/ LoopBegin
    \/ RunIfTimeEnabled
    \/ RunIfTimePeriod
    \/ RunIfTimeTimestamp
    \/ RunIfTimeDecide
    \/ RunIfTimeReturn
    \/ LoopEnd

SpecRunIfTime == InitRunIfTime /\ [][NextRunIfTime]_vars

\* The condition under which RunIfTime is to invoke Run, on the values of
\* the latest decision.
DueAtLastEval ==
    /\ h.lastEval.enabled
    /\ \/ h.lastEval.period = 0
       \/ (h.lastEval.timestamp - h.lastEval.lastRun) % TimeMod
             > h.lastEval.period

\* C14: RunIfTime invokes Run (and goes on to return true) exactly when the
\* tracker is enabled and Period = 0 or (timestamp - LastRun) mod 2^32 >
\* Period; otherwise it returns false with no Run invoked and LastRun
\* unchanged.  So a task attached enabled at t with period P > 0 first runs
\* on a timestamp more than P ms after t, also when the clock wraps.
C14_RunsExactlyWhenDue ==
    /\ h.lastEval.slot >= 0 => (h.lastEval.fired <=> DueAtLastEval)
    /\ pc = "run" => h.lastEval.fired /\ h.lastEval.slot = li
    /\ (pc = "loop" /\ li > 0 /\ h.lastEval.slot = li - 1
            /\ ~h.lastEval.fired)
          => /\ h.fire.task = 0
             /\ TaskList[li - 1].LastRun = h.lastEval.lastRun
    /\ (h.fire.fresh /\ h.fire.per > 0) => h.fire.sinceAttach > h.fire.per

\* The first run of a task attached with a period, taken on a timestamp
\* that is numerically below LastRun (the clock wrapped in between).
C14_Witness ==
    /\ h.fire.fresh /\ h.fire.per > 0
    /\ h.lastEval.fired
    /\ h.lastEval.timestamp < h.lastEval.lastRun

(***************************************************************************)
(* Enabling and LastRun (SpecEnable: mutators from any context).           *)
(***************************************************************************)
\* C15: every step that takes a tracker's Enabled from false to true (Attach
\* with enabled, SetEnabled(true), SetPeriodAndEnabled(p, true),
\* WakeFromISR) leaves its LastRun equal to the current millisecond
\* timestamp.
C15_EnableSetsLastRun ==
    [][\A i \in Slots :
          (~TaskList[i].Enabled /\ TaskList'[i].Enabled)
              => TaskList'[i].LastRun = now']_vars

(***************************************************************************)
(* Two tasks attached between Loop calls; the running task makes itself    *)
(* or the other task due from inside its Run (all three dispatchers).      *)
(***************************************************************************)
IdleAttach(task, p, enabled) == pc = "idle" /\ Attach(task, p, enabled)

\* The cooperative WakeFromISR call of a Run, up to the store of Period.
RunWakeFromISR(taskId) == pc = "run" /\ WakeStorePeriod(taskId)

RunSetPeriodAndEnabled(taskId) ==
    pc = "run" /\ CoopSetPeriodAndEnabled(taskId, 0, TRUE)

InitOrder ==
    /\ Constructed
    /\ TaskCapacity = 2
    /\ variant \in Variants
    /\ IdleSleepEnabled = FALSE
    /\ PlatformOS = FALSE /\ tickPeriod = 0
    /\ kind = "none"
    /\ TargetIterations = 0
    /\ h = [HInit EXCEPT !.track = {"order"}]

NextOrder ==
    \/ \E task \in 1..2, p \in {0, MaxPeriod}, enabled \in BOOLEAN :
          IdleAttach(task, p, enabled)
    \/ \E taskId \in Slots : RunWakeFromISR(taskId)
    \/ WakeStoreEnabled
    \/ \E taskId \in Slots : RunSetPeriodAndEnabled(taskId)
    \/ TickEarly
    \/ LoopBegin
    \/ RunIfTimeEnabled
    \/ RunIfTimePeriod
    \/ RunIfTimeTimestamp
    \/ RunIfTimeDecide
    \/ RunIfTimeReturn
    \/ LoopEnd

SpecOrder == InitOrder /\ [][NextOrder]_vars

\* C16: within one Loop call the trackers are evaluated in ascending id
\* order, no tracker is evaluated while a Run is in progress, and a task
\* that a Run made due (WakeFromISR or SetPeriodAndEnabled(0, true)) runs
\* before the same Loop call returns when its id is above the running
\* task's id, and not before the next Loop call when its id is equal or
\* below; in that next call it runs.
C16_OrderAndVisibility ==
    /\ h.orderOk
    /\ pc = "idle" => \A t \in TaskIds : h.madeDue[t] \notin {"same", "passed"}
    /\ h.fire.task # 0 => pc = "run" /\ TaskList[li].Task = h.fire.task

\* Both cases have happened: a task made due from a lower slot ran in the
\* same Loop call, and one made due from its own or a higher slot ran in
\* the next call.
C16_Witness == h.ranSame /\ h.ranNext

(***************************************************************************)
(* Attach, Detach and Clear with every argument, valid or not, from        *)
(* cooperative code between Loop calls, in the first MaxRegNow ms.         *)
(***************************************************************************)
MaxRegNow == 1

TickRegistry == now < MaxRegNow /\ Tick

\* Ids that name no slot of the array.
OutOfRange == {MaxTaskCount, TASK_INVALID_ID}

InitRegistry ==
    /\ Constructed
    /\ TaskCapacity \in 1..2
    /\ variant = "NoProfiling"
    /\ IdleSleepEnabled = FALSE
    /\ PlatformOS = FALSE /\ tickPeriod = 0
    /\ kind = "none"
    /\ TargetIterations = 0
    /\ h = [HInit EXCEPT !.track = {"call"}]

NextRegistry ==
    \/ \E task \in 0..NumTasks, p \in {0, MaxPeriod}, enabled \in BOOLEAN :
          Attach(task, p, enabled)
    \/ \E taskId \in Slots \cup OutOfRange : Detach(taskId)
    \/ \E task \in TaskIds : DetachTask(task)
    \/ \E t \in TaskIds : TaskDetach(t)
    \/ Clear
    \/ TickRegistry

SpecRegistry == InitRegistry /\ [][NextRegistry]_vars

\* The step is a call of the registry operation op.
IsCall(op) == h'.call.n # h.call.n /\ h'.call.op = op

\* C17: Attach(task, period, enabled) returns false when task is null, is
\* already registered or TaskCount = TaskCapacity, and then leaves TaskCount,
\* every tracker, Hot and every notified id unchanged; otherwise it returns
\* true, binds slot n = the previous TaskCount to the task with the given
\* period and enabled flag, notifies the task (and no other) with id n, and
\* increments TaskCount.
C17_AttachContract ==
    [][IsCall("Attach") =>
        LET task == h'.call.arg
            n == TaskCount
            rejected == \/ task = 0
                        \/ \E i \in Slots : i < n /\ TaskList[i].Task = task
                        \/ n = TaskCapacity
        IN  IF rejected
            THEN /\ ~h'.call.ret
                 /\ TaskCount' = TaskCount /\ TaskList' = TaskList
                 /\ Hot' = Hot /\ Id' = Id
                 /\ h'.call.notes = <<>>
            ELSE /\ h'.call.ret
                 /\ TaskList'[n].Task = task
                 /\ TaskList'[n].Period = h'.call.p
                 /\ TaskList'[n].Enabled = h'.call.en
                 /\ \A i \in Slots \ {n} : TaskList'[i] = TaskList[i]
                 /\ h'.call.notes = <<<<task, n>>>>
                 /\ Id' = [Id EXCEPT ![task] = n]
                 /\ TaskCount' = n + 1]_vars

\* Attach has rejected a task that is already registered although a slot
\* was free.
C17_Witness ==
    /\ h.call.op = "Attach" /\ ~h.call.ret
    /\ h.call.arg # 0
    /\ TaskCount < TaskCapacity

\* The notifications of the latest call that went to the task.
NotesTo(notes, task) == {i \in DOMAIN notes : notes[i][1] = task}

Removed(call) == call.notes[1][1]

\* C19: a Detach that addresses no registered task (a task pointer that is
\* not registered, an id >= TaskCount, DynamicTask::Detach while its Id is
\* the sentinel) returns false and changes nothing.  After a successful
\* detach of a task, GetTaskId of it yields the sentinel, TaskExists is
\* false, its notified id is the sentinel (so Detach by pointer and
\* DynamicTask::Detach return false), and an Attach of it is not rejected.
C19_DetachUnregistered ==
    [][/\ ( \/ IsCall("Detach") /\ h'.call.arg >= TaskCount
            \/ IsCall("DetachTask") /\ ~\E i \in Slots :
                  i < TaskCount /\ TaskList[i].Task = h'.call.arg
            \/ IsCall("TaskDetach") /\ Id[h'.call.arg] = TASK_INVALID_ID )
          => /\ ~h'.call.ret
             /\ h'.call.notes = <<>>
             /\ UNCHANGED <<TaskList, TaskCount, Hot, Id>>
       /\ ( /\ h'.call.n # h.call.n
            /\ h'.call.op \in {"Detach", "DetachTask", "TaskDetach"}
            /\ h'.call.ret )
          => \A task \in 0..NumTasks :
                task = Removed(h'.call) =>
                    /\ GetTaskId(task)' = TASK_INVALID_ID
                    /\ ~TaskExists(task)'
                    /\ Id'[task] = TASK_INVALID_ID
                    /\ task # 0 /\ TaskCount' < TaskCapacity]_vars

\* DynamicTask::Detach of a task that is not registered has returned false
\* while another task is registered.
C19_Witness ==
    /\ h.call.op = "TaskDetach" /\ ~h.call.ret
    /\ Id[h.call.arg] = TASK_INVALID_ID
    /\ TaskCount > 0

(***************************************************************************)
(* One DynamicTask on a dispatcher with idle sleep (which clears Hot at    *)
(* every Loop call); the registry setters are called with its id, with     *)
(* out-of-range ids and with the sentinel (the id the setters of a         *)
(* DynamicTask pass once it is detached).                                  *)
(***************************************************************************)
InitInvalid ==
    /\ Constructed
    /\ TaskCapacity = 1
    /\ variant = "NoProfiling"
    /\ IdleSleepEnabled = TRUE
    /\ PlatformOS = FALSE /\ tickPeriod = 0
    /\ kind = "none"
    /\ TargetIterations = 0
    /\ h = [HInit EXCEPT !.track = {"call"}]

NextInvalid ==
    \/ \E p \in {0, MaxPeriod}, enabled \in BOOLEAN : Attach(1, p, enabled)
    \/ TaskDetach(1)
    \/ \E taskId \in Slots \cup OutOfRange : SetPeriod(taskId, 1)
    \/ \E taskId \in Slots \cup OutOfRange, enabled \in BOOLEAN :
          SetEnabled(taskId, enabled)
    \/ \E taskId \in Slots \cup OutOfRange :
          SetPeriodAndEnabled(taskId, 1, TRUE)
    \/ \E taskId \in Slots \cup OutOfRange : WakeFromISR(taskId)
    \/ LoopBegin
    \/ RunIfTimeEnabled
    \/ RunIfTimePeriod
    \/ RunIfTimeTimestamp
    \/ RunIfTimeDecide
    \/ RunIfTimeReturn
    \/ LoopEnd
    \/ IdleSleepBegin
    \/ TimeUntilNextRunRead
    \/ TimeUntilNextRunReturn
    \/ IdleSleepCheckHot
    \/ IdleSleepCheckClock
    \/ PlatformIdleSleep
    \/ IdleSleepReturn

SpecInvalid == InitInvalid /\ [][NextInvalid]_vars

\* C20 reads: IsEnabled and GetPeriod on ids that name no registered task,
\* and the id a task that is not registered holds.
InvalidIdReads ==
    /\ \A taskId \in Slots \cup OutOfRange :
          (taskId = TASK_INVALID_ID \/ taskId >= TaskCount)
              => ~IsEnabled(taskId) /\ GetPeriod(taskId) = UINT32_MAX
    /\ \A t \in TaskIds : ~TaskExists(t) => Id[t] = TASK_INVALID_ID

\* C20: SetPeriod, SetEnabled, SetPeriodAndEnabled and WakeFromISR called
\* with the sentinel id or an id >= TaskCount change no tracker and leave
\* Hot as it was; IsEnabled on such an id is false and GetPeriod is
\* UINT32_MAX.  A detached DynamicTask holds the sentinel id, so its setters
\* are such calls.
C20_InvalidIdNoOp ==
    [][/\ ( /\ h'.call.n # h.call.n
            /\ h'.call.op \in {"SetPeriod", "SetEnabled",
                               "SetPeriodAndEnabled", "WakeFromISR"}
            /\ (h'.call.arg = TASK_INVALID_ID \/ h'.call.arg >= TaskCount) )
          => /\ TaskList' = TaskList
             /\ Hot' = Hot
       /\ InvalidIdReads /\ InvalidIdReads']_vars

\* SetEnabled(true) with the sentinel id has returned: the registered task
\* is still disabled and Hot is still false.
C20_Witness ==
    /\ h.call.op = "SetEnabled" /\ h.call.en
    /\ h.call.arg = TASK_INVALID_ID
    /\ TaskCount = 1 /\ ~TaskList[0].Enabled
    /\ ~Hot

(***************************************************************************)
(* GetTrace of SchedulerBaseProfiling and SchedulerFullProfiling, called   *)
(* from cooperative code: between Loop calls or inside a Run.              *)
(***************************************************************************)
\* ClearTraceData: Trace.Iterations after it.
ClearTraceDataKeeps(iterations) == iterations

ClearTraceData(iterations) == 0

\* trace = Trace.  BaseTrace has no TaskCount member; Busy and Scheduling
\* are those of the aggregate profiler.
CopyTrace(out) ==
    [Iterations |-> TraceIterations,
     TaskCount |-> IF variant = "FullProfiling" THEN TraceTaskCount
                   ELSE out.TaskCount,
     Busy |-> IF variant = "BaseProfiling" THEN TraceBusy ELSE out.Busy,
     Scheduling |-> IF variant = "BaseProfiling" THEN TraceScheduling
                    ELSE out.Scheduling]

GetTrace ==
    /\ Coop
    /\ variant # "NoProfiling"
    /\ IF TraceIterations = 0
       THEN /\ UNCHANGED <<trace, TraceIterations, TraceBusy,
                           TraceScheduling>>
            /\ h' = [HCall(h, "GetTrace", 0, 0, FALSE, FALSE, <<>>)
                        EXCEPT !.lastGet = "nodata"]
       ELSE /\ trace' = CopyTrace(trace)
            /\ TraceIterations' = ClearTraceData(TraceIterations)
            /\ TraceBusy' = 0 /\ TraceScheduling' = 0
            /\ h' = [HCall(HGetTraces(h), "GetTrace", 0, 0, FALSE, TRUE, <<>>)
                        EXCEPT !.lastGet = "data", !.loops = 0]
    /\ UNCHANGED <<regVars, cfgVars, osVars, now, pc, li, locVars, wakeId,
                   TraceTaskCount, micros, loopStart, measure, adapterVars>>

InitTrace ==
    /\ Constructed
    /\ TaskCapacity = 1
    /\ variant \in {"BaseProfiling", "FullProfiling"}
    /\ IdleSleepEnabled \in BOOLEAN
    /\ PlatformOS = FALSE /\ tickPeriod = 0
    /\ kind = "none"
    /\ TargetIterations = 0
    /\ h = [HInit EXCEPT !.track = {"trace", "call"}]

NextTrace ==
    \/ \E p \in {0, MaxPeriod} : Attach(1, p, TRUE)
    \/ TaskDetach(1)
    \/ GetTrace
    \/ TickEarly
    \/ LoopBegin
    \/ RunIfTimeEnabled
    \/ RunIfTimePeriod
    \/ RunIfTimeTimestamp
    \/ RunIfTimeDecide
    \/ RunIfTimeReturn
    \/ LoopEnd
    \/ IdleSleepBegin
    \/ TimeUntilNextRunRead
    \/ TimeUntilNextRunReturn
    \/ IdleSleepCheckHot
    \/ IdleSleepCheckClock
    \/ PlatformIdleSleep
    \/ IdleSleepReturn

SpecTrace == InitTrace /\ [][NextTrace]_vars

C22_ResyncAboveTwoPeriods ==
    [][(pc = "run" /\ pc' = "loop") =>
          TaskList'[li].LastRun =
              IF TaskList[li].Period > 1 /\ elapsed > 2 * TaskList[li].Period
              THEN timestamp
              ELSE Add32(TaskList[li].LastRun, TaskList[li].Period)]_vars

(***************************************************************************)
(* LastRun and the clock (SpecCoop: the setters called between Loop calls  *)
(* and inside a Run, in the first MaxNow milliseconds, before the clock    *)
(* has wrapped).                                                           *)
(***************************************************************************)
\* C23: the LastRun of every registered tracker never lies ahead of the
\* millisecond clock, after any combination of firings and SetEnabled /
\* SetPeriodAndEnabled calls, a task disabling and re-enabling itself inside
\* its own Run included.
C23_LastRunNotAhead ==
    \A i \in Occupied : TaskList[i].LastRun <= now

(***************************************************************************)
(* Two DynamicTasks on a registry of capacity 2: they are attached and     *)
(* detach themselves between Loop calls and inside a Run (all three        *)
(* dispatchers), in the first MaxNow milliseconds.                         *)
(***************************************************************************)
InitShift ==
    /\ Constructed
    /\ TaskCapacity = 2
    /\ variant \in Variants
    /\ IdleSleepEnabled = FALSE
    /\ PlatformOS = FALSE /\ tickPeriod = 0
    /\ kind = "none"
    /\ TargetIterations = 0
    /\ h = [HInit EXCEPT !.track = {"once"}]

NextShift ==
    \/ \E task \in 1..2, p \in {0, MaxPeriod} : Attach(task, p, TRUE)
    \/ \E t \in 1..2 : TaskDetach(t)
    \/ TickEarly
    \/ LoopBegin
    \/ RunIfTimeEnabled
    \/ RunIfTimePeriod
    \/ RunIfTimeTimestamp
    \/ RunIfTimeDecide
    \/ RunIfTimeReturn
    \/ LoopEnd

SpecShift == InitShift /\ [][NextShift]_vars

\* C24: when a Run returns, the post-run update changes only the LastRun of
\* the tracker of the task that ran: the tracker of every other registered
\* task (its Period, Enabled and LastRun) is as the registry mutators left
\* it, also when the Run detached its own or another task and the trackers
\* were shifted.
C24_RunTouchesOwnTrackerOnly ==
    [][(pc = "run" /\ pc' = "loop") =>
          \A i \in Occupied :
              TaskList[i].Task # h.fire.task => TaskList'[i] = TaskList[i]]_vars

\* C25: in one Loop call of any of the three dispatchers each task's Run is
\* invoked at most once, also when tasks are attached or detached by a Run
\* during the call.
C25_RunAtMostOncePerLoop == ~h.ranTwice

(***************************************************************************)
(* A cooperative WakeFromISR call interleaved with the setters called from *)
(* ISRs (one task, capacity 1).                                            *)
(***************************************************************************)
InitAtomic == InitOneTask({"atomic"})

NextAtomic ==
    \/ \E p \in Periods, enabled \in BOOLEAN : Attach(1, p, enabled)
    \/ \E p \in Periods : SetPeriod(0, p)
    \/ \E enabled \in BOOLEAN : SetEnabled(0, enabled)
    \/ \E p \in Periods, enabled \in BOOLEAN : SetPeriodAndEnabled(0, p, enabled)
    \/ WakeStorePeriod(0)
    \/ WakeStoreEnabled
    \/ LoopBegin
    \/ RunIfTimeEnabled
    \/ RunIfTimePeriod
    \/ RunIfTimeTimestamp
    \/ RunIfTimeDecide
    \/ RunIfTimeReturn
    \/ LoopEnd

SpecAtomic == InitAtomic /\ [][NextAtomic]_vars

\* (Period, Enabled) after WakeFromISR followed by the setter call c.
WakeThenCall(c) ==
    CASE c.op = "SetPeriod" -> <<c.p, TRUE>>
      [] c.op = "SetEnabled" -> <<0, c.en>>
      [] c.op = "SetPeriodAndEnabled" -> <<c.p, c.en>>

\* (Period, Enabled) after the setter call c followed by WakeFromISR.
CallThenWake(c) == <<0, TRUE>>

\* C26: WakeFromISR updates Period to 0 and Enabled to true as one atomic
\* step: when one ISR calls SetPeriod, SetEnabled or SetPeriodAndEnabled on
\* the same id while a WakeFromISR call made in cooperative context is in
\* progress, the (Period, Enabled) pair the tracker holds when WakeFromISR
\* returns is the result of the two calls in one of the two serial orders.
C26_WakeAtomic ==
    Len(h.wakeEnd.isr) = 1 =>
        h.wakeEnd.final \in {WakeThenCall(h.wakeEnd.isr[1]),
                             CallThenWake(h.wakeEnd.isr[1])}

(***************************************************************************)
(* Idle sleep with an OS: one task on a registry of capacity 1; ISRs call  *)
(* the setters and WakeFromISR between any two steps of the dispatcher and *)
(* while it is blocked in the take, in the first MaxNow milliseconds.      *)
(* tickPeriod is 0 for a tick rate above 1000 Hz.                          *)
(***************************************************************************)
MaxTickPeriod == 2

InitOs ==
    /\ Constructed
    /\ TaskCapacity = 1
    /\ variant = "NoProfiling"
    /\ IdleSleepEnabled = TRUE
    /\ PlatformOS = TRUE /\ tickPeriod \in 0..MaxTickPeriod
    /\ kind = "none"
    /\ TargetIterations = 0
    /\ h = [HInit EXCEPT !.track = {"os"}]

NextOs ==
    \/ \E p \in Periods, enabled \in BOOLEAN : Attach(1, p, enabled)
    \/ \E p \in Periods : SetPeriod(0, p)
    \/ \E enabled \in BOOLEAN : SetEnabled(0, enabled)
    \/ \E p \in Periods, enabled \in BOOLEAN : SetPeriodAndEnabled(0, p, enabled)
    \/ WakeFromISR(0)
    \/ TickEarly
    \/ LoopBegin
    \/ RunIfTimeEnabled
    \/ RunIfTimePeriod
    \/ RunIfTimeTimestamp
    \/ RunIfTimeDecide
    \/ RunIfTimeReturn
    \/ LoopEnd
    \/ IdleSleepBegin
    \/ TimeUntilNextRunRead
    \/ TimeUntilNextRunReturn
    \/ OsIdleSleepDecide
    \/ SemaphoreTake
    \/ SemaphoreGiven
    \/ SemaphoreTimeout

SpecOs == InitOs /\ [][NextOs]_vars

\* C27: with an OS, a WakeFromISR on a registered id that occurs after the
\* dispatch loop of a Loop call (before the sleep duration is computed,
\* between that and the take, or during the take) leaves the semaphore
\* given until the take of that call takes it, and a take that finds the
\* semaphore given does not block: the idle sleep returns without waiting
\* for its timeout.
C27_WakeEndsIdleSleep ==
    [][/\ h.wakeInSleep => signaled
       /\ h'.wakeInSleep => signaled'
       /\ (pc = "take" /\ signaled) => pc' # "blocked"
       /\ (pc = "blocked" /\ signaled /\ pc' # "blocked") =>
              (pc' = "idle" /\ ~signaled')]_vars

\* The dispatcher is blocked in a take whose timeout has not run out, and a
\* WakeFromISR has given the semaphore.
C27_Witness ==
    /\ pc = "blocked" /\ sleepDuration > 0
    /\ h.wakeInSleep /\ signaled

\* The milliseconds by which the enabled tracker in slot i is overdue.
Overdue(i) ==
    IF Sub32(now, TaskList[i].LastRun) > TaskList[i].Period
    THEN Sub32(now, TaskList[i].LastRun) - TaskList[i].Period - 1
    ELSE 0

\* C28: with an OS, when an ISR enables or re-times a task with SetEnabled,
\* SetPeriod or SetPeriodAndEnabled while the dispatcher is blocked in idle
\* sleep, the dispatcher does not stay blocked, the semaphore not given,
\* once the task is overdue by more than a tick (and a millisecond).
C28_RetimeEndsIdleSleep ==
    (pc = "blocked" /\ h.retimed /\ ~signaled) =>
        \A i \in Occupied :
            TaskList[i].Enabled => Overdue(i) <= tickPeriod + 1

\* C29: with an OS the dispatcher takes the semaphore only when the computed
\* sleep duration is greater than the tick period, and then with a timeout
\* of exactly that duration less the tick period; it never blocks with the
\* timeout 0 that waits until the semaphore is given.
C29_TimeoutBelowDeadline ==
    /\ pc = "take" => /\ shortestTime > tickPeriod
                      /\ sleepDuration = shortestTime - tickPeriod
                      /\ sleepDuration > 0
    /\ pc = "blocked" => sleepDuration # Forever

\* C30: TimeUntilNextRun returns UINT32_MAX for a tracker read as disabled,
\* whatever its LastRun and the timestamp, so that a disabled task never
\* shortens the minimum GetTimeUntilNextRun computes.
C30_DisabledNeverShortens ==
    (pc = "until" /\ period = UINT32_MAX) =>
        TimeUntilNextRun(period, timestamp, TaskList[li].LastRun) = UINT32_MAX

(***************************************************************************)
(* TimeUntilNextRun against the firing decision of RunIfTime.              *)
(***************************************************************************)
\* The milliseconds from timestamp ts to the earliest timestamp on which
\* RunIfTime fires a tracker with period p and the given LastRun.
TimeUntilFiring(p, ts, lastRun) ==
    CHOOSE d \in Times :
        /\ IsTime(p, Sub32(Add32(ts, d), lastRun))
        /\ \A e \in 0..(d - 1) : ~IsTime(p, Sub32(Add32(ts, e), lastRun))

\* C31: for a tracker read as enabled, TimeUntilNextRun(timestamp) is the
\* number of milliseconds from timestamp to the earliest timestamp on which
\* RunIfTime would fire; it is 0 exactly when RunIfTime evaluated on that
\* timestamp would fire.
C31_TimeUntilNextRunIsTimeToFiring ==
    (pc = "until" /\ period # UINT32_MAX) =>
        LET lastRun == TaskList[li].LastRun
            until == TimeUntilNextRun(period, timestamp, lastRun)
        IN  /\ until = 0 <=> IsTime(period, Sub32(timestamp, lastRun))
            /\ until = TimeUntilFiring(period, timestamp, lastRun)

(***************************************************************************)
(* What the adapters give their listener (SpecListener): the adapter of    *)
(* SpecAdapter with the history of its OnInterrupt calls and callbacks.    *)
(***************************************************************************)
InitListener ==
    /\ Constructed
    /\ TaskCapacity = 1
    /\ variant = "NoProfiling"
    /\ IdleSleepEnabled = FALSE
    /\ PlatformOS = FALSE /\ tickPeriod = 0
    /\ kind \in {"flag", "signal", "event"}
    /\ TargetIterations = 0
    /\ h = [HInit EXCEPT !.track = {"listener"}]

SpecListener == InitListener /\ [][NextAdapter]_vars

\* C32: event adapter: every OnEventInterrupt(timestamp, count) carries the
\* timestamp sampled by the first OnInterrupt call after the previous
\* snapshot-and-clear and the number of OnInterrupt calls since that
\* snapshot, at most MaxValue; while a batch is pending InterruptTimestamp
\* stays the timestamp of its first interrupt, and the timestamp and the
\* count Run took are those of one instant.
C32_EventTimestampOfFirst ==
    kind = "event" =>
        /\ h.cb.ts = h.cb.dueTs /\ h.cb.count = h.cb.due
        /\ InterruptCount > 0 => InterruptTimestamp = h.firstTs
        /\ (apc = "listener" /\ flag > 0) =>
               (runTimestamp = h.expectTs /\ flag = h.expect)

\* OnEventInterrupt has just been called for a batch of two or more
\* interrupts that did not all fall on the same millisecond.
C32_Witness ==
    /\ kind = "event" /\ apc = "pending"
    /\ h.cb.n = 1 /\ h.cb.count >= 2 /\ h.cb.spread

InitHot ==
    /\ Constructed
    /\ TaskCapacity = 1
    /\ variant \in Variants
    /\ IdleSleepEnabled \in BOOLEAN
    /\ PlatformOS = FALSE /\ tickPeriod = 0
    /\ kind = "none"
    /\ TargetIterations = 0
    /\ h = [HInit EXCEPT !.track = {"hot", "once"}]

NextHot ==
    \/ \E p \in {0, MaxPeriod}, enabled \in BOOLEAN : Attach(1, p, enabled)
    \/ \E taskId \in {0, TASK_INVALID_ID} : Detach(taskId)
    \/ DetachTask(1)
    \/ Clear
    \/ \E taskId \in {0, TASK_INVALID_ID} : SetPeriod(taskId, 1)
    \/ \E taskId \in {0, TASK_INVALID_ID}, enabled \in BOOLEAN :
          SetEnabled(taskId, enabled)
    \/ \E taskId \in {0, TASK_INVALID_ID} :
          SetPeriodAndEnabled(taskId, 1, TRUE)
    \/ \E taskId \in {0, TASK_INVALID_ID} : WakeFromISR(taskId)
    \/ TickEarly
    \/ LoopBegin
    \/ RunIfTimeEnabled
    \/ RunIfTimePeriod
    \/ RunIfTimeTimestamp
    \/ RunIfTimeDecide
    \/ RunIfTimeReturn
    \/ LoopEnd
    \/ IdleSleepBegin
    \/ TimeUntilNextRunRead
    \/ TimeUntilNextRunReturn
    \/ IdleSleepCheckHot
    \/ IdleSleepCheckClock
    \/ PlatformIdleSleep
    \/ IdleSleepReturn

SpecHot == InitHot /\ [][NextHot]_vars

\* C35: a successful Attach, a successful Detach, Clear, and SetPeriod,
\* SetEnabled, SetPeriodAndEnabled and WakeFromISR on a valid id leave Hot
\* true when they return; Hot goes from true to false only in the step with
\* which the dispatcher begins a Loop call.
C35_HotOnEveryChange ==
    [][/\ h'.changeN # h.changeN => Hot'
       /\ (Hot /\ ~Hot') => (pc = "idle" /\ pc' = "loop")]_vars

\* During a Loop call with idle sleep, which began by resetting Hot, a
\* registry operation has changed scheduling state and left the registered
\* task due, and no task has fired.
C35_Witness ==
    /\ IdleSleepEnabled /\ pc = "loop"
    /\ h.changed /\ h.ranInPass = {}
    /\ TaskCount = 1 /\ TaskList[0].Enabled /\ TaskList[0].Period = 0
    /\ Hot

\* The positions of the dispatcher inside IdleSleep.
InIdleSleep == pc \in {"scan", "until", "hot", "clock", "commit", "asleep",
                       "awake", "take", "blocked"}

InitFull ==
    /\ Constructed
    /\ TaskCapacity = 1
    /\ variant = "FullProfiling"
    /\ IdleSleepEnabled = FALSE
    /\ PlatformOS = FALSE /\ tickPeriod = 0
    /\ kind = "none"
    /\ TargetIterations = 0
    /\ h = [HInit EXCEPT !.track = {"traces"}]

NextFull ==
    \/ \E t \in {1, 2}, p \in {0, MaxPeriod} : Attach(t, p, TRUE)
    \/ \E t \in {1, 2} : TaskDetach(t)
    \/ GetTrace
    \/ TickEarly
    \/ LoopBegin
    \/ RunIfTimeEnabled
    \/ RunIfTimePeriod
    \/ RunIfTimeTimestamp
    \/ RunIfTimeDecide
    \/ RunIfTimeReturn
    \/ LoopEnd

SpecFull == InitFull /\ [][NextFull]_vars

\* C37: in every trace the full profiler's GetTrace returns, each
\* TaskTraces[i] holds the runs of at most one task: an attach or detach
\* that changes which task a slot holds clears the accumulators before a
\* further run is accumulated or a trace returned.
C37_TaskTracesOneTask ==
    \A i \in Slots : Cardinality(h.got[i]) <= 1

(***************************************************************************)
(* AbstractScheduler::AdvanceTimestamp, called from cooperative code       *)
(* between Loop calls, no ISR falling inside the call (SpecAdvance).       *)
(***************************************************************************)
\* for (i < TaskCount) Tasks[i].LastRun -= offset;
AdvanceListForward(tl, n, offset) ==
    [i \in Slots |-> IF i < n THEN [tl[i] EXCEPT !.LastRun = Add32(@, offset)]
                     ELSE tl[i]]

AdvanceList(tl, n, offset) ==
    [i \in Slots |-> IF i < n THEN [tl[i] EXCEPT !.LastRun = Sub32(@, offset)]
                     ELSE tl[i]]

\* AdvanceTimestamp is called at most this many times.
MaxAdvance == 1

AdvanceTimestamp(offset) ==
    /\ Coop /\ pc = "idle"
    /\ h.adv.calls < MaxAdvance
    /\ TaskList' = AdvanceList(TaskList, TaskCount, offset)
    /\ h' = [h EXCEPT !.adv = [calls |-> h.adv.calls + 1, offset |-> offset,
                               count |-> TaskCount,
                               wrapped |-> \E i \in Slots :
                                              /\ i < TaskCount
                                              /\ TaskList[i].LastRun < offset]]
    /\ UNCHANGED <<TaskCount, Hot, Id, cfgVars, osVars, trace, now, pc, li,
                   locVars, wakeId, traceVars, adapterVars>>

InitAdvance ==
    /\ Constructed
    /\ TaskCapacity = 2
    /\ variant = "NoProfiling"
    /\ IdleSleepEnabled = FALSE
    /\ PlatformOS = FALSE /\ tickPeriod = 0
    /\ kind = "none"
    /\ TargetIterations = 0
    /\ h = HInit

NextAdvance ==
    \/ \E t \in {1, 2}, p \in {0, MaxPeriod}, enabled \in BOOLEAN :
          Attach(t, p, enabled)
    \/ \E offset \in Times : AdvanceTimestamp(offset)
    \/ TickEarly
    \/ LoopBegin
    \/ RunIfTimeEnabled
    \/ RunIfTimePeriod
    \/ RunIfTimeTimestamp
    \/ RunIfTimeDecide
    \/ RunIfTimeReturn
    \/ LoopEnd

SpecAdvance == InitAdvance /\ [][NextAdvance]_vars

\* What RunIfTime and TimeUntilNextRun give for tracker tr on timestamp ts.
Fires(tr, ts) == tr.Enabled /\ IsTime(tr.Period, Sub32(ts, tr.LastRun))

UntilNextRun(tr, ts) ==
    TimeUntilNextRun(IF tr.Enabled THEN tr.Period ELSE UINT32_MAX, ts,
                     tr.LastRun)

\* C38: AdvanceTimestamp(offset) takes offset, modulo 2^32, from LastRun of
\* every registered tracker and changes nothing else; for every registered
\* tracker whose elapsed time plus offset is below 2^32, the firing decision
\* and TimeUntilNextRun on the clock value now after the call are those on
\* now + offset before it.
C38_AdvanceIsClockShift ==
    [][h'.adv.calls # h.adv.calls =>
        /\ \A i \in Slots :
              TaskList'[i] =
                  IF i < TaskCount
                  THEN [TaskList[i] EXCEPT !.LastRun =
                           (@ - h'.adv.offset + TimeMod) % TimeMod]
                  ELSE TaskList[i]
        /\ UNCHANGED <<TaskCount, Hot, Id, now>>
        /\ \A i \in Slots :
              (i < TaskCount
                  /\ Sub32(now, TaskList[i].LastRun) + h'.adv.offset < TimeMod)
              => /\ Fires(TaskList'[i], now)
                       <=> Fires(TaskList[i], Add32(now, h'.adv.offset))
                 /\ UntilNextRun(TaskList'[i], now)
                       = UntilNextRun(TaskList[i], Add32(now, h'.adv.offset))
      ]_vars

\* AdvanceTimestamp has been called with an offset above 0 on two registered
\* trackers, the subtraction wrapping for one of them.
C38_Witness ==
    /\ h.adv.offset > 0 /\ h.adv.count = 2 /\ h.adv.wrapped
    /\ TaskCount = 2 /\ TaskList[0].LastRun # TaskList[1].LastRun

(***************************************************************************)
(* SchedulerBaseProfiling with two slots, tasks of period 0 attached       *)
(* enabled or disabled, the microsecond clock advancing at any point,      *)
(* GetTrace called between Loop calls or from inside a Run (SpecBase).     *)
(***************************************************************************)
InitBase ==
    /\ Constructed
    /\ TaskCapacity = 2
    /\ variant = "BaseProfiling"
    /\ IdleSleepEnabled = FALSE
    /\ PlatformOS = FALSE /\ tickPeriod = 0
    /\ kind = "none"
    /\ TargetIterations = 0
    /\ h = HInit

NextBase ==
    \/ \E t \in {1, 2}, enabled \in BOOLEAN : Attach(t, 0, enabled)
    \/ MicroTick
    \/ GetTrace
    \/ LoopBegin
    \/ RunIfTimeEnabled
    \/ RunIfTimePeriod
    \/ RunIfTimeTimestamp
    \/ RunIfTimeDecide
    \/ RunIfTimeReturn
    \/ LoopEnd

SpecBase == InitBase /\ [][NextBase]_vars

\* C39: in every trace that GetTrace of the aggregate profiler returns,
\* Busy <= Scheduling, also when GetTrace is called from inside a Run.
C39_BusyWithinScheduling == trace.Busy <= trace.Scheduling

(***************************************************************************)
(* The compatibility shim TS::Task (Task/CompatibilityTask.h) as task 1 of *)
(* a registry of one slot, used from cooperative code (SpecTs).            *)
(***************************************************************************)
\* Iterations wraps at IterMod; TargetIterations is a signed number of the
\* same width.
IterMod == 2 * (MaxTarget + 2)

\* enable() and disable() are called from outside Run at most this often.
MaxTsCalls == 2

\* TS::Task::isLastIteration
IsLastIterationPast(iterations, target) ==
    IF target >= 0 THEN iterations > target ELSE FALSE

IsLastIteration(iterations, target) ==
    IF target >= 0 THEN iterations >= target ELSE FALSE

\* TS::Task::disable, the registry: SetEnabled(Id, false) when isEnabled().
TsDisabled(tl) ==
    IF IsEnabled(Id[1])
    THEN [tl EXCEPT ![Id[1]] = TrackerSetEnabled(@, FALSE, now)]
    ELSE tl

\* TS::Task::Run: disable() on the last iteration, else Callback() and
\* Iterations++.
TsRun ==
    /\ pc = "run" /\ kind = "ts" /\ apc = "snap"
    /\ IF IsLastIteration(Iterations, TargetIterations)
       THEN /\ TaskList' = TsDisabled(TaskList)
            /\ Hot' = IF IsEnabled(Id[1]) THEN FlagHot(Hot) ELSE Hot
            /\ h' = [h EXCEPT !.ts.onDisable =
                         IF IsEnabled(Id[1]) THEN @ + 1 ELSE @]
            /\ UNCHANGED Iterations
       ELSE /\ Iterations' = (Iterations + 1) % IterMod
            /\ h' = [h EXCEPT !.ts.callbacks = Min(@ + 1, MaxTarget + 1)]
            /\ UNCHANGED <<TaskList, Hot>>
    /\ apc' = "done"
    /\ UNCHANGED <<TaskCount, Id, cfgVars, osVars, trace, now, pc, li,
                   locVars, wakeId, traceVars, InterruptFlag, InterruptCount,
                   InterruptTimestamp, flag, interruptPending, runTimestamp,
                   TargetIterations>>

\* TS::Task::enable called between Loop calls; OnEnable returns true.
TsEnable ==
    /\ Coop /\ kind = "ts"
    /\ h.ts.calls < MaxTsCalls
    /\ IF ValidateTaskId(Id[1])
       THEN /\ TaskList' = [TaskList EXCEPT ![Id[1]] =
                               TrackerSetEnabled(@, TRUE, now)]
            /\ Hot' = FlagHot(Hot)
       ELSE UNCHANGED <<TaskList, Hot>>
    /\ h' = [h EXCEPT !.ts.calls = @ + 1]
    /\ UNCHANGED <<TaskCount, Id, cfgVars, osVars, trace, now, pc, li,
                   locVars, wakeId, traceVars, adapterVars>>

\* TS::Task::disable called between Loop calls.
TsDisable ==
    /\ Coop /\ kind = "ts"
    /\ h.ts.calls < MaxTsCalls
    /\ TaskList' = TsDisabled(TaskList)
    /\ Hot' = IF IsEnabled(Id[1]) THEN FlagHot(Hot) ELSE Hot
    /\ h' = [h EXCEPT !.ts.calls = @ + 1,
                      !.ts.onDisable = IF IsEnabled(Id[1]) THEN @ + 1 ELSE @]
    /\ UNCHANGED <<TaskCount, Id, cfgVars, osVars, trace, now, pc, li,
                   locVars, wakeId, traceVars, adapterVars>>

InitTs ==
    /\ Constructed
    /\ TaskCapacity = 1
    /\ variant = "NoProfiling"
    /\ IdleSleepEnabled = FALSE
    /\ PlatformOS = FALSE /\ tickPeriod = 0
    /\ kind = "ts"
    /\ TargetIterations \in TargetCounts
    /\ h = HInit

NextTs ==
    \/ \E p \in {0, 1}, enabled \in BOOLEAN : Attach(1, p, enabled)
    \/ TsEnable
    \/ TsDisable
    \/ TsRun
    \/ TickEarly
    \/ LoopBegin
    \/ RunIfTimeEnabled
    \/ RunIfTimePeriod
    \/ RunIfTimeTimestamp
    \/ RunIfTimeDecide
    \/ RunIfTimeReturn
    \/ LoopEnd

SpecTs == InitTs /\ [][NextTs]_vars

\* C40: a TS::Task with target iteration count N >= 0 has its Callback
\* invoked at most N times in total; the dispatch that follows the N-th
\* callback invokes no Callback, disables the task and calls OnDisable once;
\* every earlier dispatch invokes Callback once and leaves the task enabled;
\* with TASK_FOREVER every dispatch invokes Callback and none disables the
\* task.
C40_IterationLimit ==
    [][/\ TargetIterations >= 0 => h'.ts.callbacks <= TargetIterations
       /\ (kind = "ts" /\ apc = "snap" /\ apc' = "done") =>
             IF TargetIterations >= 0 /\ h.ts.callbacks = TargetIterations
             THEN /\ h'.ts.callbacks = h.ts.callbacks
                  /\ h'.ts.onDisable = h.ts.onDisable + 1
                  /\ TaskList[li].Enabled /\ ~TaskList'[li].Enabled
             ELSE /\ h'.ts.callbacks = Min(h.ts.callbacks + 1, MaxTarget + 1)
                  /\ h'.ts.onDisable = h.ts.onDisable
                  /\ TaskList'[li].Enabled = TaskList[li].Enabled
                  /\ TaskList[li].Enabled
      ]_vars

\* The dispatch that follows the last of MaxTarget callbacks has disabled
\* the task, after the task had been disabled and enabled again from
\* outside.
C40_Witness ==
    /\ kind = "ts" /\ pc = "run" /\ apc = "done"
    /\ TargetIterations = MaxTarget /\ h.ts.callbacks = MaxTarget
    /\ h.ts.calls = MaxTsCalls
    /\ h.ts.onDisable = 2
    /\ ~TaskList[0].Enabled

====
